---- MODULE Spec2Model ----
(***************************************************************************)
(* memory-weaviate: the WeaviateMemoryStore class (lazy, memoized          *)
(* initialization, store / search / hybridSearch / delete / count /        *)
(* close), the agent tools and CLI commands built on it, and the two       *)
(* lifecycle hooks.  Every `await` of the source is a scheduling point:    *)
(* a task is suspended there and any other task, an initialization in      *)
(* flight, or close() may run in between.                                  *)
(*                                                                         *)
(* Scores are integers in units of 0.005 (200 = 1.0), cosine distances in  *)
(* units of 0.01 (200 = 2.0), so that  1 - distance/2  is  200 - distance. *)
(***************************************************************************)
EXTENDS Integers, Sequences, FiniteSets, TLC

\* ------------------------------------------------------------------------
\* Bounds of the model
\* ------------------------------------------------------------------------
NumTasks == 2        \* concurrently running handlers
MaxCalls == 2        \* handler calls started in one run
MaxIds == 2          \* identifiers randomUUID() hands out in one run
MaxInits == 2        \* doInitialize() runs in one run
MaxCloses == 1       \* close() calls in one run

Procs == 1..NumTasks

\* ------------------------------------------------------------------------
\* Inputs
\* ------------------------------------------------------------------------
T1 == "I prefer tea"
T2 == "I prefer tea!"
T3 == "My name is Alex"
Texts == {T1, T2, T3}

\* further capturable texts; T7 is far from every other text
T4 == "We decided on Rust"
T5 == "Always run the tests"
T6 == "Remember the milk"
T7 == "Mail me at a@b.io"

\* memoryId values: 0 is `undefined`, EmptyId the empty string, MalformedId
\* a string that is not UUID shaped; 1, 2, ... are UUID shaped strings, the
\* k-th one being what the k-th call of randomUUID() returns.
NoId == 0
EmptyId == 0 - 2
MalformedId == 0 - 1
MemoryIds == {NoId, EmptyId, MalformedId} \cup (1..3)

\* query values: "" stands for both `undefined` and the empty string.
Queries == {""} \cup Texts

DefaultParams == [category |-> "other", importance |-> 70]
StoreParams == {DefaultParams, [category |-> "preference", importance |-> 90]}

\* ------------------------------------------------------------------------
\* The backend's relevance signals
\* ------------------------------------------------------------------------
Pair(a, b) == {a, b}

\* cosine distance between the vectors of two texts (0 = identical)
cosineDistance(q, t) ==
  IF q = t THEN 0
  ELSE IF Pair(q, t) = {T1, T2} THEN 10
  ELSE IF Pair(q, t) = {T1, T3} THEN 20
  ELSE IF T7 \in Pair(q, t) THEN 170
  ELSE 60

\* the backend's combined hybrid score of an object for a query
hybridScore(q, t) ==
  IF q = t THEN 200
  ELSE IF Pair(q, t) = {T1, T2} THEN 190
  ELSE IF Pair(q, t) = {T1, T3} THEN 180
  ELSE IF T7 \in Pair(q, t) THEN 40
  ELSE 120

Min(a, b) == IF a < b THEN a ELSE b

\* The ranked answers the backend may give: the `limit` best objects by the
\* signal sig (higher is better), best first; ties in any order.
RECURSIVE TopK(_, _, _, _)
TopK(S, k, q, mode) ==
  IF k = 0 \/ S = {} THEN {<<>>}
  ELSE LET sig(e) == IF mode = "hybrid" THEN hybridScore(q, e.text)
                     ELSE 200 - cosineDistance(q, e.text)
           best == {e \in S : \A f \in S : sig(f) <= sig(e)}
       IN UNION {{<<e>> \o s : s \in TopK(S \ {e}, k - 1, q, mode)} : e \in best}

\* A backend whose vectors are not known reports any cosine distance from 0
\* (identical) to 2 (opposite)
MaxDistance == 200
Distances == 0..MaxDistance

\* the `limit` nearest objects under the distances d, nearest first
RECURSIVE Nearest(_, _, _)
Nearest(S, k, d) ==
  IF k = 0 \/ S = {} THEN {<<>>}
  ELSE LET best == {e \in S : \A f \in S : d[e] <= d[f]}
       IN UNION {{<<e>> \o s : s \in Nearest(S \ {e}, k - 1, d)} : e \in best}

\* ------------------------------------------------------------------------
\* Pure pieces of the store and the handlers
\* ------------------------------------------------------------------------
\* 1 - distance
ScoreFromDistance_noHalf(distance) == 200 - 2 * distance

\* score = 1 - distance / 2
ScoreFromDistance(distance) == 200 - distance

PassesMinScore_strict(score, minScore) == score > minScore

\* .filter((r) => r.score >= minScore)
PassesMinScore(score, minScore) == score >= minScore

FilterByScore(rs, minScore) == SelectSeq(rs, LAMBDA r : PassesMinScore(r.score, minScore))

\* results.objects.map(...) of search(), the distances being d
MapDistance(objs, d) ==
  [i \in 1..Len(objs) |-> [entry |-> objs[i], score |-> ScoreFromDistance(d[objs[i]])]]

\* results.objects.map(...) of search(): distance -> score
MapVector(objs, q) ==
  [i \in 1..Len(objs) |->
     [entry |-> objs[i], score |-> ScoreFromDistance(cosineDistance(q, objs[i].text))]]

\* results.objects.map(...) of hybridSearch(): the backend's score as is
MapHybrid(objs, q) ==
  [i \in 1..Len(objs) |-> [entry |-> objs[i], score |-> hybridScore(q, objs[i].text)]]

\* /^[0-9a-f]{8}-...-[0-9a-f]{12}$/i.test(id)
uuidRegexTest(id) == id >= 1

\* `if (memoryId)`: undefined and "" are falsy
Truthy(id) == id # NoId /\ id # EmptyId

\* thresholds and limits of the call sites
DedupMinScore == 190      \* 0.95
DedupLimit == 1
ForgetMinScore == 140     \* 0.7
ForgetLimit == 5
AutoDeleteScore == 180    \* 0.9
RecallHookMinScore == 60  \* 0.3
RecallHookLimit == 3
RecallMinScore == 20      \* 0.1
DefaultLimit == 5
DefaultMinScore == 100    \* 0.5
MinPromptLength == 5

IsDuplicate_two(existing) == Len(existing) > 1

\* `existing.length > 0`
IsDuplicate(existing) == Len(existing) > 0

AutoDelete_atLeast(results) == Len(results) = 1 /\ results[1].score >= AutoDeleteScore
AutoDelete_top(results) == results[1].score > AutoDeleteScore

\* `results.length === 1 && results[0].score > 0.9`
AutoDelete(results) == Len(results) = 1 /\ results[1].score > AutoDeleteScore

\* ------------------------------------------------------------------------
\* Plugin configuration (memoryConfigSchema)
\* ------------------------------------------------------------------------
DEFAULT_EMBEDDING_MODEL == "text-embedding-3-small"

\* the models EMBEDDING_DIMENSIONS lists
KnownModels == {"text-embedding-3-small", "text-embedding-3-large"}

\* `EMBEDDING_DIMENSIONS[model]`: a property read on an object literal, which
\* also finds what the literal inherits from Object.prototype
EMBEDDING_DIMENSIONS(model) ==
  CASE model = "text-embedding-3-small" -> "1536"
    [] model = "text-embedding-3-large" -> "3072"
    [] model = "constructor" -> "[Function: Object]"
    [] OTHER -> "undefined"

\* `if (!dims) throw`: TRUE when the model is accepted
vectorDimsForModel(model) == EMBEDDING_DIMENSIONS(model) # "undefined"

\* api.pluginConfig as the host hands it over.  url: "missing" = no weaviate
\* object or no string url, "envUnset" = a string naming an unset ${VAR};
\* unknownKey: the object that carries a key outside its allowed list.
RawConfigs ==
  [given : {TRUE},
   unknownKey : {"none", "top", "weaviate", "embedding"},
   url : {"missing", "plain", "envUnset"},
   provider : {"absent", "openai", "weaviate"},
   apiKey : {"absent", "string", "number"},
   model : {"absent", "text-embedding-3-small", "text-embedding-3-large",
            "text-embedding-ada-002", "constructor"},
   autoCapture : {"absent", "false"},
   autoRecall : {"absent", "false"}]
  \cup
  [given : {FALSE}, unknownKey : {"none"}, url : {"missing"}, provider : {"absent"},
   apiKey : {"absent"}, model : {"absent"}, autoCapture : {"absent"},
   autoRecall : {"absent"}]

\* `(embedding.provider as EmbeddingProvider) ?? "openai"`
ProviderOf(raw) == IF raw.provider = "absent" THEN "openai" ELSE raw.provider

\* `typeof embedding.model === "string" ? embedding.model : DEFAULT_EMBEDDING_MODEL`
ModelOf(raw) == IF raw.model = "absent" THEN DEFAULT_EMBEDDING_MODEL ELSE raw.model

NoConfig == [provider |-> "-", model |-> "-", apiKey |-> FALSE,
             autoCapture |-> FALSE, autoRecall |-> FALSE]

\* memoryConfigSchema.parse: the checks in the order of the source; the
\* first one that fails throws
parse(raw) ==
  LET threw(e) == [ok |-> FALSE, err |-> e, cfg |-> NoConfig] IN
  IF ~raw.given THEN threw("memory-weaviate config required")
  ELSE IF raw.unknownKey = "top" THEN threw("unknown keys")
  ELSE IF raw.url = "missing" THEN threw("weaviate.url is required")
  ELSE IF raw.unknownKey \in {"weaviate", "embedding"} THEN threw("unknown keys")
  ELSE IF ProviderOf(raw) = "openai" /\ raw.apiKey # "string"
    THEN threw("embedding.apiKey is required")
  ELSE IF ProviderOf(raw) = "openai" /\ ~vectorDimsForModel(ModelOf(raw))
    THEN threw("Unsupported embedding model")
  ELSE IF raw.url = "envUnset" THEN threw("Environment variable is not set")
  ELSE [ok |-> TRUE, err |-> "none",
        cfg |-> [provider |-> ProviderOf(raw), model |-> ModelOf(raw),
                 apiKey |-> (raw.apiKey = "string"),
                 autoCapture |-> (raw.autoCapture # "false"),
                 autoRecall |-> (raw.autoRecall # "false")]]

\* what register() registers with the host for a parsed configuration
Registrations(cfg) ==
  {"memory_recall", "memory_store", "memory_forget", "memory_stats", "wmem", "service"}
    \cup (IF cfg.autoRecall THEN {"before_agent_start"} ELSE {})
    \cup (IF cfg.autoCapture THEN {"agent_end"} ELSE {})

\* a configuration that parses to the given provider and hook switches
ConfigFor(pr, ar, ac) ==
  [given |-> TRUE, unknownKey |-> "none", url |-> "plain", provider |-> pr,
   apiKey |-> IF pr = "openai" THEN "string" ELSE "absent", model |-> "absent",
   autoCapture |-> IF ac THEN "absent" ELSE "false",
   autoRecall |-> IF ar THEN "absent" ELSE "false"]

\* the plugin as the host loaded it, before register() runs
Loaded == [state |-> "loaded", store |-> FALSE, registered |-> {},
           raw |-> ConfigFor("openai", TRUE, TRUE), err |-> "none"]

\* the plugin after register() ran with a configuration that parses
Registered(raw) ==
  [state |-> "registered", store |-> TRUE, registered |-> Registrations(parse(raw).cfg),
   raw |-> raw, err |-> "none"]

\* ------------------------------------------------------------------------
\* State
\* ------------------------------------------------------------------------
VARIABLES
  provider,     \* cfg.embedding.provider
  autoRecall,   \* cfg.autoRecall
  autoCapture,  \* cfg.autoCapture
  inputs,       \* the arguments the callers of this run choose from
  client,       \* this.client: 0 = null, k = the client doInitialize run k connected
  collection,   \* this.collection: 0 = null, k = a handle got from client k
  initPromise,  \* this.initPromise: 0 = null, k = the promise of doInitialize run k
  inits,        \* position of every doInitialize run
  nInits,       \* number of doInitialize runs started
  collExists,   \* backend: the collection exists
  db,           \* backend: the objects of the collection
  nextId,       \* the next value of randomUUID()
  closes,       \* number of close() calls
  tasks,        \* the running handlers
  calls,        \* number of handler calls started
  seq,          \* history: the last memory_store call that created an entry undisturbed
  log,          \* history: what the callers of store() handed over, by assigned id
  plugin,       \* what register() did: outcome, store constructed, registrations
  sample,       \* a text handed to shouldCapture / detectCategory, and their answers
  atClose       \* history: the number of doInitialize runs started when close() last ran

vars == <<provider, autoRecall, autoCapture, inputs, client, collection, initPromise,
          inits, nInits, collExists, db, nextId, closes, tasks, calls, seq, log, plugin,
          sample, atClose>>

NoSample == [text |-> "", captured |-> "-", category |-> "-"]

\* what no store operation and no handler changes
cfgVars == <<provider, autoRecall, autoCapture, inputs, plugin, sample>>
storeVars == <<client, collection, initPromise, inits, nInits>>

NoSeq == [text |-> "", id |-> 0]

NoSearch == [text |-> "", limit |-> 0, minScore |-> 0, found |-> 0]

NoOut == [st |-> "none", action |-> "-", id |-> 0, err |-> "none", list |-> <<>>,
          text |-> ""]

IdleTask ==
  [kind |-> "idle", pc |-> "idle", stage |-> "-", meth |-> "-",
   text |-> "", memoryId |-> NoId, arg |-> NoId, prm |-> DefaultParams, source |-> "-",
   mode |-> "-", vector |-> FALSE, limit |-> 0, minScore |-> 0, wait |-> 0, newId |-> 0,
   results |-> <<>>, count |-> 0, err |-> "none", todo |-> <<>>, done |-> 0,
   stored |-> 0,
   out |-> NoOut,
   \* history of the call
   searches |-> 0, lastSearch |-> NoSearch, inserts |-> <<>>, deletes |-> <<>>,
   removed |-> {}, cands |-> <<>>, failedAt |-> 0, size0 |-> 0, alone |-> TRUE, prev |-> NoSeq,
   raw |-> <<>>, dists |-> <<>>, reqs |-> <<>>, success |-> TRUE, msgs |-> <<>>,
   gone |-> {}]

\* Objects the collection may hold from earlier runs of the program
E1 == [id |-> 1, text |-> T1, importance |-> 70, category |-> "other", source |-> "manual"]
E2 == [id |-> 2, text |-> T2, importance |-> 70, category |-> "other", source |-> "auto-capture"]
E3 == [id |-> 3, text |-> T3, importance |-> 90, category |-> "entity", source |-> "manual"]
E4 == [id |-> 4, text |-> T4, importance |-> 70, category |-> "decision", source |-> "auto-capture"]
E7 == [id |-> 5, text |-> T7, importance |-> 70, category |-> "entity", source |-> "manual"]
Persisted == {E1, E2, E3, E4, E7}
FirstNewId == Cardinality(Persisted) + 1

\* The state after `register`: nothing connected, no handler running; the
\* backend holds what earlier runs left in it.
InitWith(providers, hooks, dbs, ins) ==
  /\ provider \in providers
  /\ autoRecall \in hooks
  /\ autoCapture \in hooks
  /\ plugin = Registered(ConfigFor(provider, autoRecall, autoCapture))
  /\ sample = NoSample
  /\ inputs = ins
  /\ client = 0
  /\ collection = 0
  /\ initPromise = 0
  /\ inits = [k \in 1..MaxInits |-> "unused"]
  /\ nInits = 0
  /\ db \in dbs
  /\ collExists = (db # {})
  /\ nextId = FirstNewId
  /\ closes = 0
  /\ atClose = 0
  /\ tasks = [p \in Procs |-> IdleTask]
  /\ calls = 0
  /\ seq = NoSeq
  /\ log = {}

Providers == {"openai", "weaviate"}

\* conversations handed to agent_end
Msg(r, c) == [role |-> r, content |-> c]
Conversations ==
  {<<>>,
   <<Msg("user", T1)>>,
   <<Msg("user", T1), Msg("assistant", T3)>>,
   <<Msg("system", T3), Msg("user", "ok")>>}

Prompts == {"", "hey", T1}

AllInputs ==
  [texts |-> {T1}, prms |-> {DefaultParams}, ids |-> {NoId, MalformedId, 1},
   queries |-> {"", T1}, prompts |-> Prompts, convs |-> Conversations,
   modes |-> {"hybrid"}, limits |-> {DefaultLimit}, minScores |-> {DefaultMinScore},
   newIds |-> MaxIds, calls |-> MaxCalls]

Init == InitWith(Providers, BOOLEAN, {{}, {E1}}, AllInputs)



\* ------------------------------------------------------------------------
\* WeaviateMemoryStore: initialization and close
\* ------------------------------------------------------------------------
InitInFlight_never == FALSE

\* `if (this.initPromise) return this.initPromise;`
InitInFlight == initPromise # 0

\* ensureInitialized() as called by task p, whose record becomes tk (ts: the
\* other tasks); the caller is left awaiting the promise it was handed
\* (wait = 0: the collection was there, nothing to wait for).
ensureInitialized(p, tk, ts) ==
  IF collection # 0 THEN
    /\ tasks' = [ts EXCEPT ![p] = [tk EXCEPT !.pc = "await", !.wait = 0]]
    /\ UNCHANGED storeVars
  ELSE IF InitInFlight THEN
    /\ tasks' = [ts EXCEPT ![p] = [tk EXCEPT !.pc = "await", !.wait = initPromise]]
    /\ UNCHANGED storeVars
  ELSE
    /\ nInits < MaxInits
    /\ nInits' = nInits + 1
    /\ inits' = [inits EXCEPT ![nInits + 1] = "connect"]
    /\ initPromise' = nInits + 1
    /\ tasks' = [ts EXCEPT ![p] = [tk EXCEPT !.pc = "await", !.wait = nInits + 1,
                                            !.reqs = Append(@, "connect")]]
    /\ UNCHANGED <<client, collection>>

\* doInitialize(): `this.client = await weaviate.connectToLocal(...)`, then
\* the exists() request is sent on that client
doInitializeConnect(k) ==
  /\ inits[k] = "connect"
  /\ \E ok \in BOOLEAN :
       IF ok THEN /\ client' = k
                  /\ inits' = [inits EXCEPT ![k] = "exists"]
       ELSE /\ inits' = [inits EXCEPT ![k] = "rejected"]
            /\ UNCHANGED client
  /\ UNCHANGED <<cfgVars, collection, initPromise, nInits, collExists, db, nextId,
                 closes, atClose, tasks, calls, seq, log>>

\* `this.collection = this.client.collections.get(...)`; a null this.client
\* (close() ran meanwhile) is a TypeError that rejects the initialization
GetCollection(k) ==
  IF client = 0 THEN /\ inits' = [inits EXCEPT ![k] = "rejected"]
                     /\ UNCHANGED collection
  ELSE /\ inits' = [inits EXCEPT ![k] = "resolved"]
       /\ collection' = client

\* doInitialize(): `const exists = await this.client.collections.exists(...)`
doInitializeExists(k) ==
  /\ inits[k] = "exists"
  /\ \E ok \in BOOLEAN :
       IF ~ok THEN /\ inits' = [inits EXCEPT ![k] = "rejected"]
                   /\ UNCHANGED collection
       ELSE IF ~collExists THEN
            \* createCollection(): this.client!.collections.create(...)
            /\ inits' = [inits EXCEPT ![k] = IF client = 0 THEN "rejected" ELSE "create"]
            /\ UNCHANGED collection
       ELSE GetCollection(k)
  /\ UNCHANGED <<cfgVars, client, initPromise, nInits, collExists, db, nextId,
                 closes, atClose, tasks, calls, seq, log>>

\* doInitialize(): `await this.createCollection()`; the backend refuses to
\* create a collection that exists
doInitializeCreate(k) ==
  /\ inits[k] = "create"
  /\ \E ok \in BOOLEAN :
       IF ok /\ ~collExists THEN /\ collExists' = TRUE
                                 /\ GetCollection(k)
       ELSE /\ inits' = [inits EXCEPT ![k] = "rejected"]
            /\ UNCHANGED <<collection, collExists>>
  /\ UNCHANGED <<cfgVars, client, initPromise, nInits, db, nextId, closes, atClose, tasks,
                 calls, seq, log>>

\* close(), called by service.stop
close ==
  /\ closes < MaxCloses
  /\ closes' = closes + 1
  /\ atClose' = nInits
  /\ IF client # 0 THEN /\ client' = 0
                        /\ collection' = 0
                        /\ initPromise' = 0
     ELSE UNCHANGED <<client, collection, initPromise>>
  /\ UNCHANGED <<cfgVars, inits, nInits, collExists, db, nextId, tasks, calls, seq, log>>

\* ------------------------------------------------------------------------
\* Auto-capture: the filter and the classifier.  A text is a string of
\* UTF-16 code units, as in the source; the regular expressions are computed
\* on its characters.  The two code units of a character in the range
\* U+1F300..U+1F9FF are written "{" and "}".
\* ------------------------------------------------------------------------
Short == "ok"

At(t, i) == SubSeq(t, i, i)

Digits == {"0", "1", "2", "3", "4", "5", "6", "7", "8", "9"}
UpperCase == "ABCDEFGHIJKLMNOPQRSTUVWXYZ"
LowerCase == "abcdefghijklmnopqrstuvwxyz"
LowerLetters == {At(LowerCase, i) : i \in 1..Len(LowerCase)}
UpperLetters == {At(UpperCase, i) : i \in 1..Len(UpperCase)}

\* \w and [\w.-]
WordChars == LowerLetters \cup UpperLetters \cup Digits \cup {"_"}
WordDotDash == WordChars \cup {".", "-"}

\* what `.` does not match
LineTerminators == {"\n", "\r"}

\* the i flag, one character
Lower(c) ==
  IF c \in UpperLetters
    THEN At(LowerCase, CHOOSE i \in 1..Len(UpperCase) : At(UpperCase, i) = c)
    ELSE c

\* text.includes(pat), text.startsWith(pat)
includes(t, pat) ==
  \E i \in 1..(Len(t) - Len(pat) + 1) : SubSeq(t, i, i + Len(pat) - 1) = pat

startsWith(t, pat) == Len(t) >= Len(pat) /\ SubSeq(t, 1, Len(pat)) = pat

\* /pat/i matches at position i, for a pattern of lower-case literals
MatchesAt(t, i, pat) ==
  /\ i >= 1
  /\ i + Len(pat) - 1 <= Len(t)
  /\ \A k \in 1..Len(pat) : Lower(At(t, i + k - 1)) = At(pat, k)

\* /a|b|c/i .test(t)
TestAny(t, pats) == \E i \in 1..Len(t) : \E pat \in pats : MatchesAt(t, i, pat)

\* /my .+ is/i
MyIs(t) ==
  \E i \in 1..Len(t) :
    /\ MatchesAt(t, i, "my ")
    /\ \E j \in (i + 4)..Len(t) :
         /\ MatchesAt(t, j, " is")
         /\ \A k \in (i + 3)..(j - 1) : At(t, k) \notin LineTerminators

\* the pattern with the plus sign optional: /\+?\d{10,}/
PlusDigits_optionalPlus(t) ==
  \E i \in 1..Len(t) :
    /\ i + 9 <= Len(t)
    /\ \A k \in 0..9 : At(t, i + k) \in Digits

\* /\+\d{10,}/
PlusDigits(t) ==
  \E i \in 1..Len(t) :
    /\ At(t, i) = "+"
    /\ i + 10 <= Len(t)
    /\ \A k \in 1..10 : At(t, i + k) \in Digits

\* /@[\w.-]+\.\w+/
AtDomain(t, i) ==
  /\ At(t, i) = "@"
  /\ \E j \in (i + 2)..(Len(t) - 1) :
       /\ At(t, j) = "."
       /\ \A k \in (i + 1)..(j - 1) : At(t, k) \in WordDotDash
       /\ At(t, j + 1) \in WordChars

\* /[\w.-]+@[\w.-]+\.\w+/
Email(t) == \E i \in 2..Len(t) : At(t, i - 1) \in WordDotDash /\ AtDomain(t, i)

NumTriggers == 8

\* MEMORY_TRIGGERS[i].test(t)
MEMORY_TRIGGERS(i, t) ==
  CASE i = 1 -> TestAny(t, {"remember", "don't forget", "keep in mind"})
    [] i = 2 -> TestAny(t, {"i prefer", "i like", "i hate", "i love", "i want", "i need"})
    [] i = 3 -> TestAny(t, {"we decided", "we agreed", "going with", "we'll use"})
    [] i = 4 -> TestAny(t, {"my name is", "i'm called", "call me"})
    [] i = 5 -> MyIs(t) \/ TestAny(t, {"i work at", "i live in"})
    [] i = 6 -> TestAny(t, {"always", "never", "important to me"})
    [] i = 7 -> PlusDigits(t)
    [] i = 8 -> Email(t)

\* the four tests of detectCategory, by the category each returns
Vocabulary(c, t) ==
  CASE c = "preference" -> TestAny(t, {"prefer", "like", "love", "hate", "want", "favorite"})
    [] c = "decision" -> TestAny(t, {"decided", "agreed", "will use", "going with"})
    [] c = "entity" -> \/ PlusDigits(t)
                       \/ \E i \in 1..Len(t) : AtDomain(t, i)
                       \/ TestAny(t, {"name is", "called", "works at", "lives in"})
    [] c = "fact" -> TestAny(t, {"is", "are", "has", "have"})

\* (text.match(/[\u{1F300}-\u{1F9FF}]/gu) || []).length
emojiCount(t) == Cardinality({i \in 1..(Len(t) - 1) : SubSeq(t, i, i + 1) = "{}"})

MinCaptureLength == 10
MaxCaptureLength == 1000
MaxEmoji == 3
CaptureCap == 5
CaptureImportance == 70

\* the triggers alone, without the noise filters
shouldCapture_triggersOnly(t) == \E i \in 1..NumTriggers : MEMORY_TRIGGERS(i, t)

\* the filter without its test of the memory-context marker
shouldCapture_noMarker(t) ==
  IF Len(t) < MinCaptureLength \/ Len(t) > MaxCaptureLength THEN FALSE
  ELSE IF startsWith(t, "<") /\ includes(t, "</") THEN FALSE
  ELSE IF includes(t, "**") /\ includes(t, "\n-") THEN FALSE
  ELSE IF emojiCount(t) > MaxEmoji THEN FALSE
  ELSE \E i \in 1..NumTriggers : MEMORY_TRIGGERS(i, t)

shouldCapture(t) ==
  IF Len(t) < MinCaptureLength \/ Len(t) > MaxCaptureLength THEN FALSE
  ELSE IF includes(t, "<relevant-memories>") THEN FALSE
  ELSE IF startsWith(t, "<") /\ includes(t, "</") THEN FALSE
  ELSE IF includes(t, "**") /\ includes(t, "\n-") THEN FALSE
  ELSE IF emojiCount(t) > MaxEmoji THEN FALSE
  ELSE \E i \in 1..NumTriggers : MEMORY_TRIGGERS(i, t)

\* the classifier with the first two rules exchanged
detectCategory_decisionFirst(t) ==
  IF Vocabulary("decision", t) THEN "decision"
  ELSE IF Vocabulary("preference", t) THEN "preference"
  ELSE IF Vocabulary("entity", t) THEN "entity"
  ELSE IF Vocabulary("fact", t) THEN "fact"
  ELSE "other"

detectCategory(t) ==
  IF Vocabulary("preference", t) THEN "preference"
  ELSE IF Vocabulary("decision", t) THEN "decision"
  ELSE IF Vocabulary("entity", t) THEN "entity"
  ELSE IF Vocabulary("fact", t) THEN "fact"
  ELSE "other"

\* no test of the role
ExtractTexts_anyRole(messages) == [i \in 1..Len(messages) |-> messages[i].content]

\* the texts of the user and assistant messages, in message order
ExtractTexts(messages) ==
  LET kept == SelectSeq(messages, LAMBDA m : m.role \in {"user", "assistant"})
  IN [i \in 1..Len(kept) |-> kept[i].content]

\* texts.filter((t) => t && shouldCapture(t)), then .slice(0, 5)
ToCapture(messages) == SelectSeq(ExtractTexts(messages), LAMBDA t : t # "" /\ shouldCapture(t))
FirstCandidates_all(messages) == ToCapture(messages)

FirstCandidates(messages) ==
  SubSeq(ToCapture(messages), 1, Min(CaptureCap, Len(ToCapture(messages))))

\* ------------------------------------------------------------------------
\* The handlers, from one await to the next.  X_resume(p, tk, ts) is the code
\* handler X runs when the call it awaited returns (tk.err = "none") or
\* throws; tk is the task's record at that moment, ts the other tasks.
\* ------------------------------------------------------------------------
Throw(tk, e) == [tk EXCEPT !.err = e]

Finish(tk, o) == [tk EXCEPT !.pc = "done", !.out = o]

Done(p, tk, ts, o) ==
  /\ tasks' = [ts EXCEPT ![p] = Finish(tk, o)]
  /\ UNCHANGED storeVars

Returns(a) == [NoOut EXCEPT !.st = "returned", !.action = a]

\* no try/catch in the tools and the CLI actions: the error reaches the caller
Propagate(p, tk, ts) == Done(p, tk, ts, [NoOut EXCEPT !.st = "threw", !.err = tk.err])

\* a handler's call of a store method: the method's code up to its first await
CallStore(p, tk, ts, st, m) == ensureInitialized(p, [tk EXCEPT !.stage = st, !.meth = m], ts)

\* `await getVector(text)`: embeddings.embed(text) when there is an
\* embeddings client, undefined otherwise
HasEmbeddings == provider = "openai"

AwaitVector(p, tk, ts) ==
  /\ tasks' = [ts EXCEPT ![p] = [tk EXCEPT !.pc = "embed", !.stage = "embed",
                                          !.reqs = Append(@, "embeddings.create")]]
  /\ UNCHANGED storeVars

\* the duplicate check: store.search(text, vector, 1, 0.95) with a vector,
\* store.hybridSearch(text, 1, 0.95) without
DedupCheck(p, tk, ts) ==
  CallStore(p, [tk EXCEPT !.limit = DedupLimit, !.minScore = DedupMinScore,
                          !.lastSearch = NoSearch], ts,
            "dedup", IF tk.vector THEN "search" ELSE "hybridSearch")

\* --- tool memory_store
\* a read-back of the new entry after the insert
memory_store_resume_verify(p, tk, ts) ==
  IF tk.err # "none" THEN Propagate(p, tk, ts)
  ELSE IF tk.stage = "embed" THEN DedupCheck(p, tk, ts)
  ELSE IF tk.stage = "dedup" THEN
    IF IsDuplicate(tk.results)
    THEN Done(p, tk, ts, [Returns("duplicate") EXCEPT !.id = tk.results[1].entry.id])
    ELSE CallStore(p, tk, ts, "store", "store")
  ELSE IF tk.stage = "store" THEN CallStore(p, tk, ts, "verify", "hybridSearch")
  ELSE Done(p, tk, ts, [Returns("created") EXCEPT !.id = tk.newId])

memory_store_resume(p, tk, ts) ==
  IF tk.err # "none" THEN Propagate(p, tk, ts)
  ELSE IF tk.stage = "embed" THEN DedupCheck(p, tk, ts)
  ELSE IF tk.stage = "dedup" THEN
    IF IsDuplicate(tk.results)
    THEN Done(p, tk, ts, [Returns("duplicate") EXCEPT !.id = tk.results[1].entry.id])
    ELSE CallStore(p, tk, ts, "store", "store")
  ELSE Done(p, tk, ts, [Returns("created") EXCEPT !.id = tk.newId])

\* --- CLI wmem store
wmem_store_resume(p, tk, ts) ==
  IF tk.err # "none" THEN Propagate(p, tk, ts)
  ELSE IF tk.stage = "embed" THEN CallStore(p, tk, ts, "store", "store")
  ELSE Done(p, tk, ts, [Returns("created") EXCEPT !.id = tk.newId])

\* --- tool memory_forget
ForgetById_queryFirst(memoryId, query) == Truthy(memoryId) /\ query = ""

\* `if (memoryId)` comes first
ForgetById(memoryId, query) == Truthy(memoryId)

Candidates(results) == [i \in 1..Len(results) |-> [id |-> results[i].entry.id, score |-> results[i].score]]

\* a forget that reports not_found when the delete removed nothing
memory_forget_resume_checked(p, tk, ts) ==
  IF tk.err # "none" THEN Propagate(p, tk, ts)
  ELSE IF tk.stage = "find" THEN
    IF Len(tk.results) = 0 THEN Done(p, tk, ts, Returns("not_found"))
    ELSE IF AutoDelete(tk.results)
    THEN CallStore(p, [tk EXCEPT !.arg = tk.results[1].entry.id], ts, "autodelete", "delete")
    ELSE Done(p, tk, ts, [Returns("candidates") EXCEPT !.list = Candidates(tk.results)])
  ELSE IF tk.removed = {} THEN Done(p, tk, ts, Returns("not_found"))
  ELSE Done(p, tk, ts, [Returns("deleted") EXCEPT !.id = tk.arg])

memory_forget_resume(p, tk, ts) ==
  IF tk.err # "none" THEN Propagate(p, tk, ts)
  ELSE IF tk.stage = "find" THEN
    IF Len(tk.results) = 0 THEN Done(p, tk, ts, Returns("not_found"))
    ELSE IF AutoDelete(tk.results)
    THEN CallStore(p, [tk EXCEPT !.arg = tk.results[1].entry.id], ts, "autodelete", "delete")
    ELSE Done(p, tk, ts, [Returns("candidates") EXCEPT !.list = Candidates(tk.results)])
  ELSE Done(p, tk, ts, [Returns("deleted") EXCEPT !.id = tk.arg])

\* --- CLI wmem forget
wmem_forget_resume(p, tk, ts) ==
  IF tk.err # "none" THEN Propagate(p, tk, ts)
  ELSE Done(p, tk, ts, [Returns("deleted") EXCEPT !.id = tk.arg])

\* --- tool memory_stats and CLI wmem stats
stats_resume(p, tk, ts) ==
  IF tk.err # "none" THEN Propagate(p, tk, ts)
  ELSE Done(p, tk, ts, [Returns("count") EXCEPT !.id = tk.count])

\* --- tool memory_recall and CLI wmem search
\* results.map((r) => ({ id, text, category, importance, source, score }))
Sanitized(results) ==
  [i \in 1..Len(results) |->
     [id |-> results[i].entry.id, text |-> results[i].entry.text,
      category |-> results[i].entry.category, importance |-> results[i].entry.importance,
      source |-> results[i].entry.source, score |-> results[i].score]]

\* `if (mode === "hybrid") hybridSearch(query, limit, 0.1)
\*  else { vector = await getVector(query); search(query, vector, limit, 0.1) }`
RecallCall(p, tk, ts) ==
  IF tk.mode = "hybrid" THEN CallStore(p, tk, ts, "recall", "hybridSearch")
  ELSE IF HasEmbeddings /\ tk.stage # "embed" THEN AwaitVector(p, tk, ts)
  ELSE CallStore(p, tk, ts, "recall", "search")

recall_resume(p, tk, ts) ==
  IF tk.err # "none" THEN Propagate(p, tk, ts)
  ELSE IF tk.stage = "embed" THEN RecallCall(p, tk, ts)
  ELSE IF tk.kind = "memory_recall" /\ Len(tk.results) = 0 THEN Done(p, tk, ts, Returns("none_found"))
  ELSE Done(p, tk, ts, [Returns("found") EXCEPT !.list = Sanitized(tk.results)])

\* --- a caller of store.search / store.hybridSearch itself
direct_resume(p, tk, ts) ==
  IF tk.err # "none" THEN Propagate(p, tk, ts)
  ELSE Done(p, tk, ts, [Returns("results") EXCEPT !.list = Sanitized(tk.results)])

\* --- hook before_agent_start
before_agent_start_nocatch(tk) == Finish(tk, [NoOut EXCEPT !.st = "threw", !.err = tk.err])

\* catch (err) { api.logger.warn(...) }: the handler returns undefined
before_agent_start_catch(tk) == Finish(tk, [Returns("nothing") EXCEPT !.err = tk.err])

\* `(r.score * 100).toFixed(0)`
Percent(score) == ToString((score + 1) \div 2)

RECURSIVE memoryContext(_)
\* results.map((r) => `- [category] text (n% relevance)`).join("\n")
memoryContext(results) ==
  IF Len(results) = 0 THEN ""
  ELSE LET r == Head(results)
           line == "- [" \o r.entry.category \o "] " \o r.entry.text \o " ("
                     \o Percent(r.score) \o "% relevance)"
       IN IF Len(results) = 1 THEN line ELSE line \o "\n" \o memoryContext(Tail(results))

\* the prependContext the hook returns for a non-empty result list
prependContext(results) ==
  "<relevant-memories>\nThe following long-term memories may be relevant:\n"
    \o memoryContext(results) \o "\n</relevant-memories>"

before_agent_start_resume(p, tk, ts) ==
  IF tk.err # "none" THEN
    /\ tasks' = [ts EXCEPT ![p] = before_agent_start_catch(tk)]
    /\ UNCHANGED storeVars
  ELSE IF Len(tk.results) = 0 THEN Done(p, tk, ts, Returns("nothing"))
  ELSE Done(p, tk, ts, [Returns("prependContext") EXCEPT !.list = Candidates(tk.results),
                                                         !.text = prependContext(tk.results)])

\* --- hook agent_end
agent_end_nocatch(tk) == Finish(tk, [NoOut EXCEPT !.st = "threw", !.err = tk.err])

agent_end_catch(tk) == Finish(tk, [Returns("nothing") EXCEPT !.err = tk.err])

\* one turn of `for (const text of toCapture.slice(0, 5))`; tk.todo holds the
\* candidates from the current one on
agent_end_iterate(p, tk, ts) ==
  IF tk.todo = <<>> THEN Done(p, tk, ts, Returns("nothing"))
  ELSE LET text == Head(tk.todo)
           t2 == [tk EXCEPT !.text = text,
                            !.prm = [category |-> detectCategory(text),
                                     importance |-> CaptureImportance],
                            !.vector = FALSE]
       IN IF HasEmbeddings THEN AwaitVector(p, t2, ts) ELSE DedupCheck(p, t2, ts)

agent_end_resume(p, tk, ts) ==
  IF tk.err # "none" THEN
    /\ tasks' = [ts EXCEPT ![p] = agent_end_catch([tk EXCEPT !.failedAt = tk.done + 1])]
    /\ UNCHANGED storeVars
  ELSE IF tk.stage = "embed" THEN DedupCheck(p, tk, ts)
  ELSE IF tk.stage = "dedup" THEN
    IF IsDuplicate(tk.results)
    THEN agent_end_iterate(p, [tk EXCEPT !.todo = Tail(@), !.done = @ + 1], ts)
    ELSE CallStore(p, tk, ts, "store", "store")
  ELSE agent_end_iterate(p, [tk EXCEPT !.todo = Tail(@), !.done = @ + 1, !.stored = @ + 1], ts)

\* the handler of task p goes on
Continue(p, tk, ts) ==
  CASE tk.kind = "memory_store" -> memory_store_resume(p, tk, ts)
    [] tk.kind = "wmem_store" -> wmem_store_resume(p, tk, ts)
    [] tk.kind = "memory_forget" -> memory_forget_resume(p, tk, ts)
    [] tk.kind = "wmem_forget" -> wmem_forget_resume(p, tk, ts)
    [] tk.kind \in {"memory_stats", "wmem_stats"} -> stats_resume(p, tk, ts)
    [] tk.kind \in {"memory_recall", "wmem_search"} -> recall_resume(p, tk, ts)
    [] tk.kind = "direct" -> direct_resume(p, tk, ts)
    [] tk.kind = "before_agent_start" -> before_agent_start_resume(p, tk, ts)
    [] tk.kind = "agent_end" -> agent_end_resume(p, tk, ts)

\* ------------------------------------------------------------------------
\* WeaviateMemoryStore: the data methods.  X_issue is the method's code from
\* the resumption after `await this.ensureInitialized()` to its backend
\* request; X_respond is the backend's answer and the method's return.
\* ------------------------------------------------------------------------
InitState(tk) == IF tk.wait = 0 THEN "none" ELSE inits[tk.wait]
InitSettled(tk) == InitState(tk) \in {"none", "resolved", "rejected"}
InitRejected(tk) == InitState(tk) = "rejected"

\* the backend request a method sends
Request(tk) ==
  CASE tk.meth = "search" -> IF tk.vector /\ HasEmbeddings THEN "nearVector" ELSE "nearText"
    [] tk.meth = "hybridSearch" -> "hybrid"
    [] tk.meth = "store" -> "insert"
    [] tk.meth = "delete" -> "deleteById"
    [] tk.meth = "count" -> "aggregate"

\* the request is on its way
Issue(p, tk) ==
  /\ tasks' = [tasks EXCEPT ![p] = [tk EXCEPT !.pc = "call", !.reqs = Append(@, Request(tk))]]
  /\ UNCHANGED storeVars

\* the request sent whatever this.collection holds
ReadIssue_unchecked(p, m) ==
  LET tk == tasks[p] IN
  /\ tk.pc = "await"
  /\ tk.meth = m
  /\ InitSettled(tk)
  /\ IF InitRejected(tk) THEN Continue(p, Throw(tk, "init"), tasks)
     ELSE Issue(p, tk)
  /\ UNCHANGED <<cfgVars, collExists, db, nextId, closes, atClose, calls, seq, log>>

\* search / hybridSearch / count: `await this.ensureInitialized()` and then
\* `this.collection!.<request>`, a TypeError when the collection is null
ReadIssue(p, m) ==
  LET tk == tasks[p] IN
  /\ tk.pc = "await"
  /\ tk.meth = m
  /\ InitSettled(tk)
  /\ IF InitRejected(tk) THEN Continue(p, Throw(tk, "init"), tasks)
     ELSE IF collection = 0 THEN Continue(p, Throw(tk, "type_error"), tasks)
     ELSE Issue(p, tk)
  /\ UNCHANGED <<cfgVars, collExists, db, nextId, closes, atClose, calls, seq, log>>

search_issue(p) == ReadIssue(p, "search")
hybridSearch_issue(p) == ReadIssue(p, "hybridSearch")
count_issue(p) == ReadIssue(p, "count")

store_issue(p) ==
  LET tk == tasks[p] IN
  /\ tk.pc = "await"
  /\ tk.meth = "store"
  /\ InitSettled(tk)
  /\ IF InitRejected(tk) THEN
       /\ Continue(p, Throw(tk, "init"), tasks)
       /\ UNCHANGED nextId
     ELSE
       \* const id = randomUUID()
       /\ nextId < FirstNewId + inputs.newIds
       /\ nextId' = nextId + 1
       /\ IF collection = 0 THEN Continue(p, Throw(tk, "type_error"), tasks)
          ELSE Issue(p, [tk EXCEPT !.newId = nextId])
  /\ UNCHANGED <<cfgVars, collExists, db, closes, atClose, calls, seq, log>>

delete_issue(p) ==
  LET tk == tasks[p] IN
  /\ tk.pc = "await"
  /\ tk.meth = "delete"
  /\ InitSettled(tk)
  /\ IF InitRejected(tk) THEN Continue(p, Throw(tk, "init"), tasks)
     ELSE IF ~uuidRegexTest(tk.arg) THEN Continue(p, Throw(tk, "invalid_id"), tasks)
     ELSE IF collection = 0 THEN Continue(p, Throw(tk, "type_error"), tasks)
     ELSE Issue(p, tk)
  /\ UNCHANGED <<cfgVars, collExists, db, nextId, closes, atClose, calls, seq, log>>

\* a backend request fails (network failure, timeout, service error)
BackendError(p) ==
  /\ tasks[p].pc = "call"
  /\ Continue(p, Throw(tasks[p], "backend"), tasks)
  /\ UNCHANGED <<cfgVars, collExists, db, nextId, closes, atClose, calls, seq, log>>

Searched(tk, mapped) ==
  LET rs == FilterByScore(mapped, tk.minScore) IN
  [tk EXCEPT !.raw = mapped, !.results = rs, !.searches = @ + 1,
             !.lastSearch = [text |-> tk.text, limit |-> tk.limit,
                             minScore |-> tk.minScore, found |-> Len(rs)]]

\* nearVector / nearText answered
search_respond(p) ==
  LET tk == tasks[p] IN
  /\ tk.pc = "call"
  /\ tk.meth = "search"
  /\ \E objs \in TopK(db, tk.limit, tk.text, "vector") :
       Continue(p, [Searched(tk, MapVector(objs, tk.text)) EXCEPT
                      !.dists = [i \in 1..Len(objs) |-> cosineDistance(tk.text, objs[i].text)]],
                tasks)
  /\ UNCHANGED <<cfgVars, collExists, db, nextId, closes, atClose, calls, seq, log>>

\* nearVector / nearText answered by a backend whose vectors are not known
search_respond_any(p) ==
  LET tk == tasks[p] IN
  /\ tk.pc = "call"
  /\ tk.meth = "search"
  /\ \E d \in [db -> Distances] : \E objs \in Nearest(db, tk.limit, d) :
       Continue(p, [Searched(tk, MapDistance(objs, d)) EXCEPT
                      !.dists = [i \in 1..Len(objs) |-> d[objs[i]]]],
                tasks)
  /\ UNCHANGED <<cfgVars, collExists, db, nextId, closes, atClose, calls, seq, log>>

\* hybrid answered from the collection as it was before the caller's inserts
hybridSearch_respond_stale(p) ==
  LET tk == tasks[p]
      own == {tk.inserts[i].id : i \in 1..Len(tk.inserts)}
  IN
  /\ tk.pc = "call"
  /\ tk.meth = "hybridSearch"
  /\ \E objs \in TopK({e \in db : e.id \notin own}, tk.limit, tk.text, "hybrid") :
       Continue(p, Searched(tk, MapHybrid(objs, tk.text)), tasks)
  /\ UNCHANGED <<cfgVars, collExists, db, nextId, closes, atClose, calls, seq, log>>

\* hybrid answered
hybridSearch_respond(p) ==
  LET tk == tasks[p] IN
  /\ tk.pc = "call"
  /\ tk.meth = "hybridSearch"
  /\ \E objs \in TopK(db, tk.limit, tk.text, "hybrid") :
       Continue(p, Searched(tk, MapHybrid(objs, tk.text)), tasks)
  /\ UNCHANGED <<cfgVars, collExists, db, nextId, closes, atClose, calls, seq, log>>

\* an identifier made from the text instead of randomUUID()
NewEntry_idFromText(tk) ==
  [id |-> FirstNewId + Len(tk.text), text |-> tk.text, importance |-> tk.prm.importance,
   category |-> tk.prm.category, source |-> tk.source]

\* one identifier for every entry
NewEntry_reusedId(tk) ==
  [id |-> FirstNewId, text |-> tk.text, importance |-> tk.prm.importance,
   category |-> tk.prm.category, source |-> tk.source]

\* the caller's importance dropped for the default
NewEntry_defaultImportance(tk) ==
  [id |-> tk.newId, text |-> tk.text, importance |-> DefaultParams.importance,
   category |-> tk.prm.category, source |-> tk.source]

NewEntry(tk) ==
  [id |-> tk.newId, text |-> tk.text, importance |-> tk.prm.importance,
   category |-> tk.prm.category, source |-> tk.source]

\* what the caller of store() passed, with the id store() returned
Handed(tk) ==
  [id |-> tk.newId, text |-> tk.text, importance |-> tk.prm.importance,
   category |-> tk.prm.category, source |-> tk.source]

\* every other running handler has been written past
Disturbed(p) ==
  [q \in Procs |-> IF q = p THEN tasks[q]
                   ELSE [tasks[q] EXCEPT !.alone = FALSE, !.prev = NoSeq]]

\* data.insert answered
store_respond(p) ==
  LET tk == tasks[p] IN
  /\ tk.pc = "call"
  /\ tk.meth = "store"
  /\ db' = db \cup {NewEntry(tk)}
  /\ Continue(p, [tk EXCEPT !.inserts = Append(@, [id |-> tk.newId, text |-> tk.text,
                                                   check |-> tk.lastSearch])],
              Disturbed(p))
  /\ seq' = IF tk.kind = "memory_store" /\ tk.alone
            THEN [text |-> tk.text, id |-> tk.newId] ELSE NoSeq
  /\ log' = log \cup {Handed(tk)}
  /\ UNCHANGED <<cfgVars, collExists, nextId, closes, atClose, calls>>

\* the backend answers without removing the object
delete_respond_keep(p) ==
  LET tk == tasks[p] IN
  /\ tk.pc = "call"
  /\ tk.meth = "delete"
  /\ Continue(p, [tk EXCEPT !.deletes = Append(@, tk.arg)], Disturbed(p))
  /\ UNCHANGED <<cfgVars, collExists, db, nextId, closes, atClose, calls, seq, log>>

\* data.deleteById answered
delete_respond(p) ==
  LET tk == tasks[p] IN
  /\ tk.pc = "call"
  /\ tk.meth = "delete"
  /\ db' = {e \in db : e.id # tk.arg}
  /\ Continue(p, [tk EXCEPT !.deletes = Append(@, tk.arg),
                            !.removed = @ \cup {e \in db : e.id = tk.arg}],
              Disturbed(p))
  /\ seq' = NoSeq
  /\ UNCHANGED <<cfgVars, collExists, nextId, closes, atClose, calls, log>>

\* the count read as absent: `?? 0`
count_respond_zero(p) ==
  LET tk == tasks[p] IN
  /\ tk.pc = "call"
  /\ tk.meth = "count"
  /\ Continue(p, [tk EXCEPT !.count = 0], tasks)
  /\ UNCHANGED <<cfgVars, collExists, db, nextId, closes, atClose, calls, seq, log>>

\* aggregate.overAll answered
count_respond(p) ==
  LET tk == tasks[p] IN
  /\ tk.pc = "call"
  /\ tk.meth = "count"
  /\ Continue(p, [tk EXCEPT !.count = Cardinality(db)], tasks)
  /\ UNCHANGED <<cfgVars, collExists, db, nextId, closes, atClose, calls, seq, log>>

\* Embeddings.embed answered, or failed
embed_respond(p) ==
  /\ tasks[p].pc = "embed"
  /\ \E ok \in BOOLEAN :
       IF ok THEN Continue(p, [tasks[p] EXCEPT !.vector = TRUE], tasks)
       ELSE Continue(p, Throw(tasks[p], "embedding"), tasks)
  /\ UNCHANGED <<cfgVars, collExists, db, nextId, closes, atClose, calls, seq, log>>

\* ------------------------------------------------------------------------
\* The handlers' entry points
\* ------------------------------------------------------------------------
\* a handler is invoked; it runs in the first free slot
Invoked(p) ==
  /\ plugin.state = "registered"
  /\ tasks[p].kind = "idle"
  /\ \A q \in Procs : q < p => tasks[q].kind # "idle"
  /\ calls < inputs.calls
  /\ calls' = calls + 1

\* the ids a forget has reported deleted to a caller that still holds the report
ReportedDeleted ==
  {tasks[q].out.id : q \in {r \in Procs : tasks[r].pc = "done" /\ tasks[r].out.action = "deleted"}}

NewTask(k, text) ==
  [IdleTask EXCEPT !.kind = k, !.text = text, !.size0 = Cardinality(db),
                   !.gone = ReportedDeleted]

memory_store(p) ==
  /\ Invoked(p)
  /\ \E text \in inputs.texts, prm \in inputs.prms :
       LET tk == [NewTask("memory_store", text) EXCEPT
                    !.prm = prm, !.source = "manual",
                    !.prev = IF seq.text = text THEN seq ELSE NoSeq]
       IN IF HasEmbeddings THEN AwaitVector(p, tk, tasks) ELSE DedupCheck(p, tk, tasks)
  /\ UNCHANGED <<cfgVars, collExists, db, nextId, closes, atClose, seq, log>>

wmem_store(p) ==
  /\ Invoked(p)
  /\ \E text \in inputs.texts, prm \in inputs.prms :
       LET tk == [NewTask("wmem_store", text) EXCEPT !.prm = prm, !.source = "manual"]
       IN IF HasEmbeddings THEN AwaitVector(p, tk, tasks)
          ELSE CallStore(p, tk, tasks, "store", "store")
  /\ UNCHANGED <<cfgVars, collExists, db, nextId, closes, atClose, seq, log>>

\* tool memory_recall and CLI `wmem search <query> --limit --mode`
recall(p) ==
  /\ Invoked(p)
  /\ \E k \in {"memory_recall", "wmem_search"}, query \in inputs.queries \ {""},
        limit \in inputs.limits, mode \in inputs.modes :
       RecallCall(p, [NewTask(k, query) EXCEPT !.mode = mode, !.limit = limit,
                                               !.minScore = RecallMinScore], tasks)
  /\ UNCHANGED <<cfgVars, collExists, db, nextId, closes, atClose, seq, log>>

\* store.search(queryText, vector, limit, minScore) and
\* store.hybridSearch(queryText, limit, minScore) called with any arguments
direct_search(p) ==
  /\ Invoked(p)
  /\ \E m \in {"search", "hybridSearch"}, query \in inputs.queries \ {""},
        limit \in inputs.limits, minScore \in inputs.minScores, vector \in BOOLEAN :
       CallStore(p, [NewTask("direct", query) EXCEPT !.limit = limit, !.minScore = minScore,
                                                     !.vector = vector /\ m = "search"],
                 tasks, "search", m)
  /\ UNCHANGED <<cfgVars, collExists, db, nextId, closes, atClose, seq, log>>

memory_forget(p) ==
  /\ Invoked(p)
  /\ \E memoryId \in inputs.ids, query \in inputs.queries :
       LET tk == [NewTask("memory_forget", query) EXCEPT !.memoryId = memoryId]
       IN IF ForgetById(memoryId, query)
          THEN CallStore(p, [tk EXCEPT !.arg = memoryId], tasks, "delete", "delete")
          ELSE IF query # ""
          THEN CallStore(p, [tk EXCEPT !.limit = ForgetLimit, !.minScore = ForgetMinScore],
                         tasks, "find", "hybridSearch")
          ELSE Done(p, tk, tasks, Returns("missing_param"))
  /\ UNCHANGED <<cfgVars, collExists, db, nextId, closes, atClose, seq, log>>

wmem_forget(p) ==
  /\ Invoked(p)
  /\ \E id \in inputs.ids \ {NoId} :
       CallStore(p, [NewTask("wmem_forget", "") EXCEPT !.memoryId = id, !.arg = id],
                 tasks, "delete", "delete")
  /\ UNCHANGED <<cfgVars, collExists, db, nextId, closes, atClose, seq, log>>

stats(p) ==
  /\ Invoked(p)
  /\ \E k \in {"memory_stats", "wmem_stats"} :
       CallStore(p, NewTask(k, ""), tasks, "count", "count")
  /\ UNCHANGED <<cfgVars, collExists, db, nextId, closes, atClose, seq, log>>

\* the hook without its test of the prompt
before_agent_start_noGuard(p) ==
  /\ autoRecall
  /\ Invoked(p)
  /\ \E prompt \in inputs.prompts :
       CallStore(p, [NewTask("before_agent_start", prompt) EXCEPT
                       !.limit = RecallHookLimit, !.minScore = RecallHookMinScore],
                 tasks, "recall", "hybridSearch")
  /\ UNCHANGED <<cfgVars, collExists, db, nextId, closes, atClose, seq, log>>

\* registered when cfg.autoRecall
before_agent_start(p) ==
  /\ autoRecall
  /\ Invoked(p)
  /\ \E prompt \in inputs.prompts :
       LET tk == NewTask("before_agent_start", prompt)
       IN IF prompt = "" \/ Len(prompt) < MinPromptLength
          THEN Done(p, tk, tasks, Returns("nothing"))
          ELSE CallStore(p, [tk EXCEPT !.limit = RecallHookLimit,
                                       !.minScore = RecallHookMinScore],
                         tasks, "recall", "hybridSearch")
  /\ UNCHANGED <<cfgVars, collExists, db, nextId, closes, atClose, seq, log>>

\* registered when cfg.autoCapture
agent_end(p) ==
  /\ autoCapture
  /\ Invoked(p)
  /\ \E success \in BOOLEAN, messages \in inputs.convs :
       LET tk == [NewTask("agent_end", "") EXCEPT !.source = "auto-capture",
                                                    !.success = success, !.msgs = messages]
       IN IF ~success \/ Len(messages) = 0 THEN Done(p, tk, tasks, Returns("nothing"))
          ELSE IF Len(ToCapture(messages)) = 0 THEN Done(p, tk, tasks, Returns("nothing"))
          ELSE agent_end_iterate(p, [tk EXCEPT !.todo = FirstCandidates(messages),
                                              !.cands = FirstCandidates(messages)], tasks)
  /\ UNCHANGED <<cfgVars, collExists, db, nextId, closes, atClose, seq, log>>

\* the caller has the outcome; the slot is free for the next call
Return(p) ==
  /\ tasks[p].pc = "done"
  /\ tasks' = [tasks EXCEPT ![p] = IdleTask]
  /\ UNCHANGED <<cfgVars, storeVars, collExists, db, nextId, closes, atClose, calls, seq, log>>

\* memoryPlugin.register: parse the configuration first; when parse throws,
\* nothing after it runs.  Otherwise the store is constructed (lazily: not
\* connected) and the tools, the CLI, the hooks and the service are registered.
register ==
  /\ plugin.state = "loaded"
  /\ \E raw \in RawConfigs :
       LET r == parse(raw) IN
         IF r.ok
           THEN /\ plugin' = Registered(raw)
                /\ provider' = r.cfg.provider
                /\ autoRecall' = r.cfg.autoRecall
                /\ autoCapture' = r.cfg.autoCapture
           ELSE /\ plugin' = [Loaded EXCEPT !.state = "threw", !.raw = raw, !.err = r.err]
                /\ UNCHANGED <<provider, autoRecall, autoCapture>>
  /\ UNCHANGED <<inputs, sample, storeVars, collExists, db, nextId, closes, atClose, tasks, calls,
                 seq, log>>

\* ------------------------------------------------------------------------
\* The filter and the classifier applied to a text
\* ------------------------------------------------------------------------
RECURSIVE Repeat(_, _)
Repeat(t, n) ==
  IF n = 0 THEN ""
  ELSE LET half == Repeat(t, n \div 2) IN half \o half \o (IF n % 2 = 1 THEN t ELSE "")

\* what the recall hook can have put in front of a prompt
ContextBlocks ==
  {prependContext(MapHybrid(es, T1)) : es \in {<<E1>>, <<E3, E1>>, <<E1, E2, E4>>}}

Openings ==
  {"", "<b>", "** ", "{}{}{} ", "{}{}{}{} ", "Note: "} \cup {"Hi. " \o b : b \in ContextBlocks}
     \cup ContextBlocks

Bodies ==
  {"", "I prefer tea", "we DECIDED", "My cat is", "my\ncat is", "I'm called Al",
   "call +1234567890", "call 1234567890", "call +123456789", "a@b.io", "at @b.io",
   "Remember", "never", "lol that's funny", "it has rained", "I like what we agreed",
   "I like it", "I like it."}

Endings == {"", "</b>", "\n- item", " {}"}

\* a text of exactly 1000 and one of 1001 code units, both with a trigger
LongTexts == {"I prefer " \o Repeat("a", 991), "I prefer " \o Repeat("a", 992)}

SampleTexts ==
  {a \o b \o c : a \in Openings, b \in Bodies, c \in Endings}
    \cup LongTexts \cup {T1, T2, T3, T4, T5, T6, T7, Short}

\* the host puts the prependContext a recall hook returned in front of the
\* prompt; the result is a message text of the conversation
host_prepend(p) ==
  /\ tasks[p].pc = "done"
  /\ tasks[p].out.action = "prependContext"
  /\ \E pre \in {"", "Hi. "}, post \in {"", T1} :
       sample' = [NoSample EXCEPT !.text = pre \o tasks[p].out.text \o post]
  /\ UNCHANGED <<provider, autoRecall, autoCapture, inputs, plugin, storeVars, collExists,
                 db, nextId, closes, atClose, tasks, calls, seq, log>>

\* shouldCapture(text)
capture_filter ==
  /\ sample.captured = "-"
  /\ sample' = [sample EXCEPT !.captured = IF shouldCapture(sample.text) THEN "yes" ELSE "no"]
  /\ UNCHANGED <<provider, autoRecall, autoCapture, inputs, plugin, storeVars, collExists,
                 db, nextId, closes, atClose, tasks, calls, seq, log>>

\* detectCategory(text)
classify ==
  /\ sample.category = "-"
  /\ sample' = [sample EXCEPT !.category = detectCategory(sample.text)]
  /\ UNCHANGED <<provider, autoRecall, autoCapture, inputs, plugin, storeVars, collExists,
                 db, nextId, closes, atClose, tasks, calls, seq, log>>

\* ------------------------------------------------------------------------
\* Specifications
\* ------------------------------------------------------------------------
Next ==
  \/ \E k \in 1..MaxInits : doInitializeConnect(k)
  \/ \E k \in 1..MaxInits : doInitializeExists(k)
  \/ \E k \in 1..MaxInits : doInitializeCreate(k)
  \/ close
  \/ \E p \in Procs : search_issue(p)
  \/ \E p \in Procs : hybridSearch_issue(p)
  \/ \E p \in Procs : count_issue(p)
  \/ \E p \in Procs : store_issue(p)
  \/ \E p \in Procs : delete_issue(p)
  \/ \E p \in Procs : search_respond(p)
  \/ \E p \in Procs : hybridSearch_respond(p)
  \/ \E p \in Procs : count_respond(p)
  \/ \E p \in Procs : store_respond(p)
  \/ \E p \in Procs : delete_respond(p)
  \/ \E p \in Procs : BackendError(p)
  \/ \E p \in Procs : embed_respond(p)
  \/ \E p \in Procs : memory_store(p)
  \/ \E p \in Procs : wmem_store(p)
  \/ \E p \in Procs : recall(p)
  \/ \E p \in Procs : memory_forget(p)
  \/ \E p \in Procs : wmem_forget(p)
  \/ \E p \in Procs : stats(p)
  \/ \E p \in Procs : before_agent_start(p)
  \/ \E p \in Procs : agent_end(p)
  \/ \E p \in Procs : Return(p)

Spec == Init /\ [][Next]_vars

\* --- the store paths alone: memory_store and wmem store, three calls
StoreInputs == [AllInputs EXCEPT !.texts = {T1, T2}, !.calls = MaxCalls + 1]

InitStore == InitWith(Providers, {TRUE}, {{}, {E3}}, StoreInputs)

NextStore ==
  \/ \E k \in 1..MaxInits : doInitializeConnect(k)
  \/ \E k \in 1..MaxInits : doInitializeExists(k)
  \/ \E k \in 1..MaxInits : doInitializeCreate(k)
  \/ close
  \/ \E p \in Procs : search_issue(p)
  \/ \E p \in Procs : hybridSearch_issue(p)
  \/ \E p \in Procs : store_issue(p)
  \/ \E p \in Procs : search_respond(p)
  \/ \E p \in Procs : hybridSearch_respond(p)
  \/ \E p \in Procs : store_respond(p)
  \/ \E p \in Procs : BackendError(p)
  \/ \E p \in Procs : embed_respond(p)
  \/ \E p \in Procs : memory_store(p)
  \/ \E p \in Procs : wmem_store(p)
  \/ \E p \in Procs : Return(p)

SpecStore == InitStore /\ [][NextStore]_vars

\* --- forget by id and by query, on the stores earlier runs may have left
ForgetInputs ==
  [AllInputs EXCEPT !.ids = {NoId, EmptyId, MalformedId, 1, 3}, !.queries = {"", T1, T2}]

ForgetDbs == {{}, {E1}, {E3}, {E1, E2}, {E2, E3}}

InitForget == InitWith({"weaviate"}, {TRUE}, ForgetDbs, ForgetInputs)

NextForget ==
  \/ \E k \in 1..MaxInits : doInitializeConnect(k)
  \/ \E k \in 1..MaxInits : doInitializeExists(k)
  \/ \E k \in 1..MaxInits : doInitializeCreate(k)
  \/ close
  \/ \E p \in Procs : hybridSearch_issue(p)
  \/ \E p \in Procs : delete_issue(p)
  \/ \E p \in Procs : hybridSearch_respond(p)
  \/ \E p \in Procs : delete_respond(p)
  \/ \E p \in Procs : BackendError(p)
  \/ \E p \in Procs : memory_forget(p)
  \/ \E p \in Procs : wmem_forget(p)
  \/ \E p \in Procs : Return(p)

SpecForget == InitForget /\ [][NextForget]_vars

\* --- the two lifecycle hooks
HookInputs == AllInputs

InitHooks == InitWith(Providers, BOOLEAN, {{}, {E1}}, HookInputs)

NextHooks ==
  \/ \E k \in 1..MaxInits : doInitializeConnect(k)
  \/ \E k \in 1..MaxInits : doInitializeExists(k)
  \/ \E k \in 1..MaxInits : doInitializeCreate(k)
  \/ close
  \/ \E p \in Procs : search_issue(p)
  \/ \E p \in Procs : hybridSearch_issue(p)
  \/ \E p \in Procs : store_issue(p)
  \/ \E p \in Procs : search_respond(p)
  \/ \E p \in Procs : hybridSearch_respond(p)
  \/ \E p \in Procs : store_respond(p)
  \/ \E p \in Procs : BackendError(p)
  \/ \E p \in Procs : embed_respond(p)
  \/ \E p \in Procs : before_agent_start(p)
  \/ \E p \in Procs : agent_end(p)
  \/ \E p \in Procs : Return(p)

SpecHooks == InitHooks /\ [][NextHooks]_vars

\* --- recall: the tool, the CLI and the recall hook, in every mode
RecallInputs ==
  [AllInputs EXCEPT !.modes = {"hybrid", "vector", "keyword"}, !.limits = {1, DefaultLimit}]

RecallDbs == {{}, {E1, E7}, {E1, E2, E3, E4}}

InitRecall == InitWith(Providers, BOOLEAN, RecallDbs, RecallInputs) /\ autoCapture

NextRecall ==
  \/ \E k \in 1..MaxInits : doInitializeConnect(k)
  \/ \E k \in 1..MaxInits : doInitializeExists(k)
  \/ \E k \in 1..MaxInits : doInitializeCreate(k)
  \/ close
  \/ \E p \in Procs : search_issue(p)
  \/ \E p \in Procs : hybridSearch_issue(p)
  \/ \E p \in Procs : search_respond(p)
  \/ \E p \in Procs : hybridSearch_respond(p)
  \/ \E p \in Procs : BackendError(p)
  \/ \E p \in Procs : embed_respond(p)
  \/ \E p \in Procs : recall(p)
  \/ \E p \in Procs : before_agent_start(p)
  \/ \E p \in Procs : Return(p)

SpecRecall == InitRecall /\ [][NextRecall]_vars

\* --- the two search methods, called with any threshold, the vector search
\* answered with any distances
SearchInputs ==
  [AllInputs EXCEPT !.limits = {1, DefaultLimit}, !.minScores = {0, 20, 100, 190, 200},
                    !.calls = 1]

SearchDbs == {{}, {E1}, {E1, E3}}

InitSearch == InitWith(Providers, {TRUE}, SearchDbs, SearchInputs)

NextSearch ==
  \/ \E k \in 1..MaxInits : doInitializeConnect(k)
  \/ \E k \in 1..MaxInits : doInitializeExists(k)
  \/ \E k \in 1..MaxInits : doInitializeCreate(k)
  \/ \E p \in Procs : search_issue(p)
  \/ \E p \in Procs : hybridSearch_issue(p)
  \/ \E p \in Procs : search_respond_any(p)
  \/ \E p \in Procs : hybridSearch_respond(p)
  \/ \E p \in Procs : BackendError(p)
  \/ \E p \in Procs : direct_search(p)
  \/ \E p \in Procs : Return(p)

SpecSearch == InitSearch /\ [][NextSearch]_vars

\* --- store, then recall, with deletes and other stores in between
RoundTripInputs ==
  [AllInputs EXCEPT !.prms = StoreParams, !.ids = {3}, !.queries = {T1},
                    !.calls = MaxCalls + 1]

InitRoundTrip == InitWith(Providers, {TRUE}, {{}, {E3}}, RoundTripInputs)

NextRoundTrip ==
  \/ \E k \in 1..MaxInits : doInitializeConnect(k)
  \/ \E k \in 1..MaxInits : doInitializeExists(k)
  \/ \E k \in 1..MaxInits : doInitializeCreate(k)
  \/ \E p \in Procs : search_issue(p)
  \/ \E p \in Procs : hybridSearch_issue(p)
  \/ \E p \in Procs : store_issue(p)
  \/ \E p \in Procs : delete_issue(p)
  \/ \E p \in Procs : search_respond(p)
  \/ \E p \in Procs : hybridSearch_respond(p)
  \/ \E p \in Procs : store_respond(p)
  \/ \E p \in Procs : delete_respond(p)
  \/ \E p \in Procs : BackendError(p)
  \/ \E p \in Procs : embed_respond(p)
  \/ \E p \in Procs : memory_store(p)
  \/ \E p \in Procs : recall(p)
  \/ \E p \in Procs : wmem_forget(p)
  \/ \E p \in Procs : Return(p)

SpecRoundTrip == InitRoundTrip /\ [][NextRoundTrip]_vars

\* --- one run of the capture hook, on a conversation with more accepted
\* texts than the cap among others
LongConversation ==
  <<Msg("user", T1), Msg("system", T2), Msg("assistant", Short), Msg("user", T3),
    Msg("assistant", T4), Msg("user", T5), Msg("user", T6), Msg("assistant", T7)>>

CaptureInputs ==
  [AllInputs EXCEPT !.convs = {<<>>, <<Msg("system", T3), Msg("user", Short)>>, LongConversation},
                    !.newIds = CaptureCap + 1, !.calls = 1]

InitCapture == InitWith(Providers, BOOLEAN, {{}, {E1}}, CaptureInputs) /\ autoRecall

NextCapture ==
  \/ \E k \in 1..MaxInits : doInitializeConnect(k)
  \/ \E k \in 1..MaxInits : doInitializeExists(k)
  \/ \E k \in 1..MaxInits : doInitializeCreate(k)
  \/ close
  \/ \E p \in Procs : search_issue(p)
  \/ \E p \in Procs : hybridSearch_issue(p)
  \/ \E p \in Procs : store_issue(p)
  \/ \E p \in Procs : search_respond(p)
  \/ \E p \in Procs : hybridSearch_respond(p)
  \/ \E p \in Procs : store_respond(p)
  \/ \E p \in Procs : BackendError(p)
  \/ \E p \in Procs : embed_respond(p)
  \/ \E p \in Procs : agent_end(p)
  \/ \E p \in Procs : Return(p)

SpecCapture == InitCapture /\ [][NextCapture]_vars

\* --- runs of the capture hook on conversations that hold an accepted text
\* more than once
RepeatConversation == <<Msg("user", T1), Msg("assistant", T4), Msg("user", T1)>>
EchoConversation ==
  <<Msg("user", T3), Msg("assistant", T3), Msg("system", T1), Msg("user", T3)>>

RepeatInputs ==
  [AllInputs EXCEPT !.convs = {RepeatConversation, EchoConversation},
                    !.newIds = 4, !.calls = 2]

InitRepeat == InitWith(Providers, {TRUE}, {{}, {E3}}, RepeatInputs)

NextRepeat ==
  \/ \E k \in 1..MaxInits : doInitializeConnect(k)
  \/ \E k \in 1..MaxInits : doInitializeExists(k)
  \/ \E k \in 1..MaxInits : doInitializeCreate(k)
  \/ \E p \in Procs : search_issue(p)
  \/ \E p \in Procs : hybridSearch_issue(p)
  \/ \E p \in Procs : store_issue(p)
  \/ \E p \in Procs : search_respond(p)
  \/ \E p \in Procs : hybridSearch_respond(p)
  \/ \E p \in Procs : store_respond(p)
  \/ \E p \in Procs : BackendError(p)
  \/ \E p \in Procs : embed_respond(p)
  \/ \E p \in Procs : agent_end(p)
  \/ \E p \in Procs : Return(p)

SpecRepeat == InitRepeat /\ [][NextRepeat]_vars

\* register() with every configuration, then the handlers it registered
RegisterInputs == [AllInputs EXCEPT !.prompts = {T1}, !.convs = {<<Msg("user", T1)>>},
                                    !.calls = 1]

InitRegister ==
  /\ plugin = Loaded
  /\ sample = NoSample
  /\ provider = "-"
  /\ autoRecall = FALSE
  /\ autoCapture = FALSE
  /\ inputs = RegisterInputs
  /\ client = 0
  /\ collection = 0
  /\ initPromise = 0
  /\ inits = [k \in 1..MaxInits |-> "unused"]
  /\ nInits = 0
  /\ db = {E1}
  /\ collExists = TRUE
  /\ nextId = FirstNewId
  /\ closes = 0
  /\ atClose = 0
  /\ tasks = [p \in Procs |-> IdleTask]
  /\ calls = 0
  /\ seq = NoSeq
  /\ log = {}

NextRegister ==
  \/ register
  \/ \E k \in 1..MaxInits : doInitializeConnect(k)
  \/ \E k \in 1..MaxInits : doInitializeExists(k)
  \/ \E p \in Procs : count_issue(p)
  \/ \E p \in Procs : count_respond(p)
  \/ \E p \in Procs : hybridSearch_issue(p)
  \/ \E p \in Procs : hybridSearch_respond(p)
  \/ \E p \in Procs : stats(p)
  \/ \E p \in Procs : before_agent_start(p)
  \/ \E p \in Procs : agent_end(p)
  \/ \E p \in Procs : Return(p)

SpecRegister == InitRegister /\ [][NextRegister]_vars

\* the filter and the classifier on their own, over the sample texts
FilterInputs == [AllInputs EXCEPT !.prompts = {T1}, !.calls = 1]

InitFilter ==
  /\ \E t \in SampleTexts : sample = [NoSample EXCEPT !.text = t]
  /\ plugin = Registered(ConfigFor("weaviate", TRUE, TRUE))
  /\ provider = "weaviate"
  /\ autoRecall = TRUE
  /\ autoCapture = TRUE
  /\ inputs = FilterInputs
  /\ client = 0
  /\ collection = 0
  /\ initPromise = 0
  /\ inits = [k \in 1..MaxInits |-> "unused"]
  /\ nInits = 0
  /\ db = {E1, E3}
  /\ collExists = TRUE
  /\ nextId = FirstNewId
  /\ closes = 0
  /\ atClose = 0
  /\ tasks = [p \in Procs |-> IdleTask]
  /\ calls = 0
  /\ seq = NoSeq
  /\ log = {}

NextFilter ==
  \/ capture_filter
  \/ classify
  \/ \E k \in 1..MaxInits : doInitializeConnect(k)
  \/ \E k \in 1..MaxInits : doInitializeExists(k)
  \/ \E p \in Procs : hybridSearch_issue(p)
  \/ \E p \in Procs : hybridSearch_respond(p)
  \/ \E p \in Procs : before_agent_start(p)
  \/ \E p \in Procs : host_prepend(p)

SpecFilter == InitFilter /\ [][NextFilter]_vars

\* forget, and what store, recall and the recall hook see afterwards
AfterForgetInputs ==
  [AllInputs EXCEPT !.ids = {NoId, 1}, !.queries = {"", T1}, !.prompts = {T1},
                    !.calls = MaxCalls + 1]

InitAfterForget ==
  InitWith({"weaviate"}, {TRUE}, {{E1}, {E1, E2}, {E1, E3}}, AfterForgetInputs)

NextAfterForget ==
  \/ \E k \in 1..MaxInits : doInitializeConnect(k)
  \/ \E k \in 1..MaxInits : doInitializeExists(k)
  \/ \E p \in Procs : hybridSearch_issue(p)
  \/ \E p \in Procs : store_issue(p)
  \/ \E p \in Procs : delete_issue(p)
  \/ \E p \in Procs : hybridSearch_respond(p)
  \/ \E p \in Procs : store_respond(p)
  \/ \E p \in Procs : delete_respond(p)
  \/ \E p \in Procs : memory_store(p)
  \/ \E p \in Procs : recall(p)
  \/ \E p \in Procs : memory_forget(p)
  \/ \E p \in Procs : wmem_forget(p)
  \/ \E p \in Procs : before_agent_start(p)
  \/ \E p \in Procs : Return(p)

SpecAfterForget == InitAfterForget /\ [][NextAfterForget]_vars

\* ------------------------------------------------------------------------
\* Properties
\* ------------------------------------------------------------------------
Completed(p) == tasks[p].pc = "done" /\ tasks[p].out.st = "returned"

\* C1: a memory_store call that starts after an earlier memory_store call
\* with the same text has returned "created", with no other call writing to
\* the store from the start of the first call to the return of the second,
\* inserts nothing, and when it returns it reports a duplicate whose
\* existingId is the first call's entry, the store being as large as when
\* it started.
C1_SecondStoreIsDuplicate ==
  \A p \in Procs :
    (tasks[p].kind = "memory_store" /\ tasks[p].prev # NoSeq) =>
      /\ tasks[p].inserts = <<>>
      /\ Completed(p) =>
           /\ tasks[p].out.action = "duplicate"
           /\ tasks[p].out.id = tasks[p].prev.id
           /\ Cardinality(db) = tasks[p].size0

C1_Witness ==
  \E p \in Procs :
    /\ tasks[p].kind = "memory_store"
    /\ tasks[p].prev # NoSeq
    /\ Completed(p)
    /\ tasks[p].out.action = "duplicate"
    /\ tasks[p].out.id = tasks[p].prev.id

\* C2: every insert, on every path, follows a duplicate search for the
\* inserted text with threshold 0.95 and limit 1 that found nothing.
C2_InsertOnlyAfterEmptyDedup ==
  \A p \in Procs :
    \A i \in 1..Len(tasks[p].inserts) :
      tasks[p].inserts[i].check =
        [text |-> tasks[p].inserts[i].text, limit |-> DedupLimit,
         minScore |-> DedupMinScore, found |-> 0]

\* C8: when two memory_store calls with the same text have both returned
\* "created" (they ran concurrently and both duplicate checks came back
\* empty), both inserts took place: the store holds two entries with that
\* text.
C8_RaceWritesTwice ==
  \A p, q \in Procs :
    (/\ p # q
     /\ tasks[p].kind = "memory_store" /\ tasks[q].kind = "memory_store"
     /\ tasks[p].text = tasks[q].text
     /\ Completed(p) /\ Completed(q)
     /\ tasks[p].out.action = "created" /\ tasks[q].out.action = "created")
    => Cardinality({e \in db : e.text = tasks[p].text}) >= 2

C8_Witness ==
  \E p, q \in Procs :
    /\ p # q
    /\ tasks[p].kind = "memory_store" /\ tasks[q].kind = "memory_store"
    /\ tasks[p].text = tasks[q].text
    /\ Completed(p) /\ Completed(q)
    /\ tasks[p].out.action = "created" /\ tasks[q].out.action = "created"
    /\ tasks[p].lastSearch.found = 0 /\ tasks[q].lastSearch.found = 0
    /\ Cardinality({e \in db : e.text = tasks[p].text}) = 2

\* C3: as long as close() has not run, doInitialize has been started at most
\* once, and every caller suspended in ensureInitialized awaits the promise
\* of that one run.
C3_SingleInitialization ==
  closes = 0 =>
    /\ nInits <= 1
    /\ \A p \in Procs :
         (tasks[p].pc = "await" /\ tasks[p].wait # 0) => tasks[p].wait = initPromise

InFlight(k) == inits[k] \in {"connect", "exists", "create"}

C3_Witness ==
  /\ closes = 0
  /\ \E p, q \in Procs :
       /\ p # q
       /\ tasks[p].pc = "await" /\ tasks[q].pc = "await"
       /\ tasks[p].wait = 1 /\ tasks[q].wait = 1
       /\ tasks[p].meth # tasks[q].meth
       /\ InFlight(1)

IsForget(p) == tasks[p].kind \in {"memory_forget", "wmem_forget"}

\* C4: a forget (tool or CLI) with a non-empty memoryId that is not UUID
\* shaped ends with the invalid-identifier error, whatever the state of the
\* store, and issues no deleteById.
C4_MalformedIdIsInvalidIdentifier ==
  \A p \in Procs :
    (IsForget(p) /\ Truthy(tasks[p].memoryId) /\ tasks[p].memoryId < 1) =>
      /\ tasks[p].deletes = <<>>
      /\ tasks[p].pc = "done" =>
           (tasks[p].out.st = "threw" /\ tasks[p].out.err = "invalid_id")

ByQuery(p) ==
  /\ tasks[p].kind = "memory_forget"
  /\ ~Truthy(tasks[p].memoryId)
  /\ tasks[p].text # ""

SingleAbove(rs) == Len(rs) = 1 /\ rs[1].score > AutoDeleteScore

\* C5: a forget by query issues a delete only when its search (threshold
\* 0.7) returned exactly one result whose score is above 0.9, and then for
\* that result's id alone; it removes no other entry; and when it returns
\* after such a search, it has deleted that entry.
C5_AutoDeleteExactlyTheSingleMatch ==
  \A p \in Procs :
    ByQuery(p) =>
      /\ tasks[p].lastSearch.minScore \in {0, ForgetMinScore}
      /\ tasks[p].deletes # <<>> =>
           /\ SingleAbove(tasks[p].results)
           /\ tasks[p].deletes = <<tasks[p].results[1].entry.id>>
           /\ tasks[p].removed \subseteq {tasks[p].results[1].entry}
      /\ (Completed(p) /\ tasks[p].searches = 1 /\ SingleAbove(tasks[p].results)) =>
           /\ tasks[p].out.action = "deleted"
           /\ tasks[p].out.id = tasks[p].results[1].entry.id
           /\ tasks[p].deletes = <<tasks[p].results[1].entry.id>>

C5_Witness ==
  \E p \in Procs :
    /\ ByQuery(p)
    /\ Completed(p)
    /\ tasks[p].out.action = "deleted"
    /\ tasks[p].removed = {tasks[p].results[1].entry}
    /\ db # {}

\* C6: a forget by query whose search returned nothing, several results, or
\* one result with a score of at most 0.9 issues no delete and no insert;
\* it reports not-found for an empty result and otherwise returns all the
\* results, in order, as candidates.
C6_NoDeleteWithoutSingleMatch ==
  \A p \in Procs :
    (ByQuery(p) /\ Completed(p) /\ ~SingleAbove(tasks[p].results)) =>
      /\ tasks[p].deletes = <<>>
      /\ tasks[p].removed = {}
      /\ tasks[p].inserts = <<>>
      /\ Len(tasks[p].results) = 0 => tasks[p].out.action = "not_found"
      /\ Len(tasks[p].results) > 0 =>
           /\ tasks[p].out.action = "candidates"
           /\ Len(tasks[p].out.list) = Len(tasks[p].results)
           /\ \A i \in 1..Len(tasks[p].results) :
                /\ tasks[p].out.list[i].id = tasks[p].results[i].entry.id
                /\ tasks[p].out.list[i].score = tasks[p].results[i].score

C6_Witness ==
  \E p \in Procs :
    /\ ByQuery(p)
    /\ Completed(p)
    /\ Len(tasks[p].results) = 2
    /\ tasks[p].results[1].score > AutoDeleteScore
    /\ tasks[p].out.action = "candidates"
    /\ Cardinality(db) = 2

Both(p) ==
  /\ tasks[p].kind = "memory_forget"
  /\ Truthy(tasks[p].memoryId)
  /\ tasks[p].text # ""

\* C7: a forget given both a memoryId and a query performs no search, issues
\* deletes for that memoryId only, removes no entry with another id, and
\* when it returns reports that id deleted.
C7_MemoryIdTakesPrecedence ==
  \A p \in Procs :
    Both(p) =>
      /\ tasks[p].searches = 0
      /\ \A i \in 1..Len(tasks[p].deletes) : tasks[p].deletes[i] = tasks[p].memoryId
      /\ \A e \in tasks[p].removed : e.id = tasks[p].memoryId
      /\ Completed(p) =>
           (tasks[p].out.action = "deleted" /\ tasks[p].out.id = tasks[p].memoryId)

C7_Witness ==
  \E p \in Procs :
    /\ Both(p)
    /\ Completed(p)
    /\ tasks[p].removed # {}
    /\ db # {}

Failed(p) == tasks[p].pc = "done" /\ tasks[p].out.err # "none"

\* C9 as stated: a capture hook in which a call failed has persisted nothing.
C9_FailureLeavesNothingPersisted ==
  \A p \in Procs :
    (tasks[p].kind = "agent_end" /\ Failed(p)) =>
      (tasks[p].out.st = "returned" /\ tasks[p].inserts = <<>>)

\* C9 amended: the capture hook never propagates an error; when a call
\* fails while candidate number k is processed, the hook stops there: what
\* it has persisted are candidates before the k-th, one entry each, and
\* nothing is persisted for the k-th or a later candidate.
C9_FailureStopsCapture ==
  \A p \in Procs :
    (tasks[p].kind = "agent_end" /\ tasks[p].pc = "done") =>
      /\ tasks[p].out.st = "returned"
      /\ tasks[p].out.err # "none" =>
           /\ tasks[p].failedAt \in 1..Len(tasks[p].cands)
           /\ Len(tasks[p].inserts) = tasks[p].stored
           /\ tasks[p].stored < tasks[p].failedAt
           /\ \A i \in 1..Len(tasks[p].inserts) :
                \E j \in 1..(tasks[p].failedAt - 1) :
                  tasks[p].cands[j] = tasks[p].inserts[i].text

C9_Witness ==
  \E p \in Procs :
    /\ tasks[p].kind = "agent_end"
    /\ Failed(p)
    /\ tasks[p].failedAt = 2
    /\ Len(tasks[p].inserts) = 1
    /\ \E e \in db : e.id = tasks[p].inserts[1].id /\ e.source = "auto-capture"

\* C10: the recall hook never propagates an error; when the initialization
\* or the hybrid search failed, it returns nothing to prepend.
C10_RecallFailureIsSwallowed ==
  \A p \in Procs :
    (tasks[p].kind = "before_agent_start" /\ tasks[p].pc = "done") =>
      /\ tasks[p].out.st = "returned"
      /\ tasks[p].out.err # "none" =>
           (tasks[p].out.action = "nothing" /\ tasks[p].out.list = <<>>)

C10_Witness ==
  \E p, q \in Procs :
    /\ tasks[p].kind = "before_agent_start" /\ tasks[q].kind = "before_agent_start"
    /\ Failed(p) /\ tasks[p].out.err = "init"
    /\ Failed(q) /\ tasks[q].out.err = "backend"

\* the elements of rs with a score of at least m, in the order of rs
RECURSIVE AtLeast(_, _)
AtLeast(rs, m) ==
  IF rs = <<>> THEN <<>>
  ELSE IF Head(rs).score >= m THEN <<Head(rs)>> \o AtLeast(Tail(rs), m)
  ELSE AtLeast(Tail(rs), m)

HasSearched(p) == tasks[p].searches > 0

\* C12: what search and hybridSearch return is the backend's list without
\* the entries that score below minScore: the rest is all there, in the
\* backend's order, and every returned score is at least minScore; an empty
\* backend list is returned as an empty list, not as an error.
C12_ResultIsBackendListAboveMinScore ==
  \A p \in Procs :
    HasSearched(p) =>
      /\ tasks[p].results = AtLeast(tasks[p].raw, tasks[p].minScore)
      /\ \A i \in 1..Len(tasks[p].results) : tasks[p].results[i].score >= tasks[p].minScore
      /\ (tasks[p].kind = "direct" /\ tasks[p].raw = <<>>) =>
           (Completed(p) /\ tasks[p].out.list = <<>>)

C12_Witness ==
  \E p \in Procs :
    /\ tasks[p].kind = "direct"
    /\ Completed(p)
    /\ Len(tasks[p].raw) = 2
    /\ Len(tasks[p].results) = 1
    /\ tasks[p].results[1].score = tasks[p].minScore
    /\ tasks[p].raw[2].score = tasks[p].minScore - 1

\* C13: the score of every result of a vector search is 1 - distance/2 of
\* the distance the backend reported; for the distances 0 to 2 it lies
\* between 0 and 1, and a larger distance never has a larger score.
C13_ScoreIsOneMinusHalfDistance ==
  \A p \in Procs :
    (HasSearched(p) /\ tasks[p].meth = "search") =>
      /\ Len(tasks[p].raw) = Len(tasks[p].dists)
      /\ \A i \in 1..Len(tasks[p].raw) :
           /\ 2 * tasks[p].raw[i].score = 2 * 200 - 2 * tasks[p].dists[i]
           /\ tasks[p].raw[i].score >= 0
           /\ tasks[p].raw[i].score <= 200
           /\ \A j \in 1..Len(tasks[p].raw) :
                tasks[p].dists[i] < tasks[p].dists[j] =>
                  tasks[p].raw[i].score >= tasks[p].raw[j].score

C13_Witness ==
  \E p \in Procs :
    /\ tasks[p].kind = "direct"
    /\ tasks[p].meth = "search"
    /\ Completed(p)
    /\ tasks[p].dists = <<0, MaxDistance>>
    /\ tasks[p].raw[1].score = 200
    /\ tasks[p].raw[2].score = 0

IsRecall(p) == tasks[p].kind \in {"memory_recall", "wmem_search"}

\* C11: a recall (tool or CLI) in mode keyword sends the backend a hybrid
\* query, as mode hybrid does, and no other kind of query.
C11_KeywordIssuesHybrid ==
  \A p \in Procs :
    (IsRecall(p) /\ tasks[p].mode = "keyword") =>
      /\ \A i \in 1..Len(tasks[p].reqs) : tasks[p].reqs[i] \in {"connect", "hybrid"}
      /\ tasks[p].pc = "call" => tasks[p].meth = "hybridSearch"

\* r carries the text, category and importance that were handed to store()
\* with its id, if the id is one store() assigned
AsStored(id, text, category, importance) ==
  \A l \in log :
    l.id = id => (l.text = text /\ l.category = category /\ l.importance = importance)

\* C14: every entry a hybrid search returns, and every memory a hybrid
\* recall reports, has the text, category and importance that the caller
\* of store() passed when the entry's id was assigned.
C14_RoundTripKeepsFields ==
  \A p \in Procs :
    /\ (HasSearched(p) /\ tasks[p].meth = "hybridSearch") =>
         \A i \in 1..Len(tasks[p].results) :
           LET e == tasks[p].results[i].entry
           IN AsStored(e.id, e.text, e.category, e.importance)
    /\ (IsRecall(p) /\ tasks[p].mode = "hybrid" /\ Completed(p)) =>
         \A i \in 1..Len(tasks[p].out.list) :
           LET r == tasks[p].out.list[i]
           IN AsStored(r.id, r.text, r.category, r.importance)

C14_Witness ==
  \E p \in Procs :
    /\ IsRecall(p)
    /\ tasks[p].mode = "hybrid"
    /\ Completed(p)
    /\ \E i \in 1..Len(tasks[p].out.list) :
         /\ tasks[p].out.list[i].id \in {l.id : l \in log}
         /\ tasks[p].out.list[i].category = "preference"
         /\ tasks[p].out.list[i].importance = 90
    /\ E3 \notin db

IsStats(p) == tasks[p].kind \in {"memory_stats", "wmem_stats"}

\* a stats call that has returned, no other call having written to the
\* store since it began
QuietStats(p) == IsStats(p) /\ Completed(p) /\ tasks[p].alone

\* C15: a stats call that returns, with no store, forget or capture write
\* completed since it began, reports the number of entries persisted; two
\* such calls report the same count.
C15_StatsIsStable ==
  \A p, q \in Procs :
    (QuietStats(p) /\ QuietStats(q)) =>
      /\ tasks[p].out.id = Cardinality(db)
      /\ tasks[p].out.id = tasks[q].out.id

C15_Witness ==
  \E p, q \in Procs :
    /\ p # q
    /\ QuietStats(p) /\ QuietStats(q)
    /\ tasks[p].out.id = 1
    /\ tasks[q].out.id = 1

DistinctIds == \A e, f \in db : e.id = f.id => e = f

Inserting(p, id) ==
  tasks[p].pc = "call" /\ tasks[p].meth = "store" /\ tasks[p].newId = id

Deleting(p, id) ==
  tasks[p].pc = "call" /\ tasks[p].meth = "delete" /\ tasks[p].arg = id

\* one step of the program, seen from the collection: an entry that appears
\* has the id store() drew for the insert in flight, an id no entry has or
\* had; an entry that disappears is the target of a delete in flight; an
\* entry that stays keeps every field
EntryStep ==
  /\ \A e \in db' \ db :
       /\ \E p \in Procs : Inserting(p, e.id)
       /\ e.id >= FirstNewId /\ e.id < nextId
       /\ e.id \notin {f.id : f \in db} \cup {l.id : l \in log}
  /\ \A e \in db \ db' : \E p \in Procs : Deleting(p, e.id)
  /\ \A e \in db : \A f \in db' : e.id = f.id => e = f

\* C16: the persisted entries always have pairwise distinct ids; an entry's
\* id is the one store() drew when it was created, never one in use or used
\* before; an entry's fields never change; an entry leaves the store only
\* by a delete of its id.
C16_EntryLifecycle == []DistinctIds /\ [][EntryStep]_vars

C16_Witness ==
  \E p \in Procs :
    /\ tasks[p].removed = {E1}
    /\ E1 \notin db
    /\ \E e \in db : e.id >= FirstNewId

Threw(p) == tasks[p].pc = "done" /\ tasks[p].out.st = "threw"

\* C17: a memory_store call that ends with an error has inserted nothing,
\* and if no other call wrote meanwhile the store is as large as when the
\* call began; a call that reports created has made one insert, of an
\* entry with the id it reports and the text, category and importance it
\* was given, and that entry is in the store.
C17_StoreIsAllOrNothing ==
  \A p \in Procs :
    tasks[p].kind = "memory_store" =>
      /\ Threw(p) =>
           /\ tasks[p].inserts = <<>>
           /\ tasks[p].alone => Cardinality(db) = tasks[p].size0
      /\ (Completed(p) /\ tasks[p].out.action = "created") =>
           /\ Len(tasks[p].inserts) = 1
           /\ tasks[p].inserts[1].id = tasks[p].out.id
           /\ [id |-> tasks[p].out.id, text |-> tasks[p].text,
               importance |-> tasks[p].prm.importance, category |-> tasks[p].prm.category,
               source |-> "manual"] \in db
           /\ tasks[p].alone => Cardinality(db) = tasks[p].size0 + 1

C17_Witness ==
  \E p \in Procs :
    /\ tasks[p].kind = "memory_store"
    /\ Threw(p)
    /\ tasks[p].stage = "store"
    /\ tasks[p].out.err = "backend"
    /\ tasks[p].alone
    /\ Cardinality(db) = tasks[p].size0

IsCapture(p) == tasks[p].kind = "agent_end"

\* the texts of a conversation's user and assistant messages that pass the
\* capture filter, in message order
Accepted(msgs) ==
  LET kept == SelectSeq(msgs, LAMBDA m : m.role \in {"user", "assistant"}
                                          /\ m.content # "" /\ shouldCapture(m.content))
  IN [i \in 1..Len(kept) |-> kept[i].content]

\* the position of text t among the first n elements of ts, 0 if it is not there
PositionIn(ts, n, t) ==
  IF \E j \in 1..Min(n, Len(ts)) : ts[j] = t
  THEN CHOOSE j \in 1..Min(n, Len(ts)) : ts[j] = t
  ELSE 0

\* C18: a run of the capture hook works on texts among the first 5 accepted
\* texts of the conversation only, in message order: it makes at most 5
\* inserts, each of one of those texts, later inserts being of later texts;
\* an accepted text after the fifth is never processed or stored.
C18_CaptureCap ==
  \A p \in Procs :
    IsCapture(p) =>
      LET acc == Accepted(tasks[p].msgs) IN
      /\ Len(tasks[p].inserts) <= CaptureCap
      /\ tasks[p].done <= CaptureCap
      /\ tasks[p].text # "" => PositionIn(acc, CaptureCap, tasks[p].text) > 0
      /\ \A i \in 1..Len(tasks[p].inserts) :
           /\ PositionIn(acc, CaptureCap, tasks[p].inserts[i].text) > 0
           /\ \A k \in 1..Len(tasks[p].inserts) :
                i < k => PositionIn(acc, CaptureCap, tasks[p].inserts[i].text)
                           < PositionIn(acc, CaptureCap, tasks[p].inserts[k].text)

C18_Witness ==
  \E p \in Procs :
    /\ IsCapture(p)
    /\ Completed(p)
    /\ Len(Accepted(tasks[p].msgs)) = CaptureCap + 1
    /\ tasks[p].done = CaptureCap
    /\ Len(tasks[p].inserts) = CaptureCap - 1
    /\ nextId < FirstNewId + inputs.newIds
    /\ \A e \in db : e.text # T7

UserOrAssistantText(msgs, t) ==
  \E k \in 1..Len(msgs) : msgs[k].role \in {"user", "assistant"} /\ msgs[k].content = t

\* C20: with autoCapture off no capture hook runs; a capture hook given an
\* unsuccessful conversation or no messages sends no request, inserts
\* nothing and returns; every text a capture hook takes up or inserts is
\* the content of a user or assistant message of its conversation.
C20_CaptureGuards ==
  \A p \in Procs :
    /\ ~autoCapture => ~IsCapture(p)
    /\ (IsCapture(p) /\ (~tasks[p].success \/ tasks[p].msgs = <<>>)) =>
         /\ tasks[p].reqs = <<>>
         /\ tasks[p].inserts = <<>>
         /\ tasks[p].cands = <<>>
         /\ Completed(p)
         /\ tasks[p].out.action = "nothing"
    /\ IsCapture(p) =>
         /\ \A i \in 1..Len(tasks[p].cands) : UserOrAssistantText(tasks[p].msgs, tasks[p].cands[i])
         /\ \A i \in 1..Len(tasks[p].inserts) :
              UserOrAssistantText(tasks[p].msgs, tasks[p].inserts[i].text)
         /\ tasks[p].text # "" => UserOrAssistantText(tasks[p].msgs, tasks[p].text)

C20_Witness ==
  \E p \in Procs :
    /\ IsCapture(p)
    /\ ~tasks[p].success
    /\ tasks[p].msgs = LongConversation
    /\ Completed(p)
    /\ tasks[p].reqs = <<>>
    /\ client = 0

IsRecallHook(p) == tasks[p].kind = "before_agent_start"

HybridRequests(p) == {i \in 1..Len(tasks[p].reqs) : tasks[p].reqs[i] = "hybrid"}

\* C19: with autoRecall off no recall hook runs; a recall hook whose prompt
\* is missing or shorter than 5 characters sends no request and returns
\* nothing; any other recall hook sends at most one query, a hybrid search
\* with limit 3 and threshold 0.3, returns a context block only after that
\* search, listing its 1 to 3 results, each scoring at least 0.3, and
\* returns nothing when the search found nothing.
C19_RecallHook ==
  \A p \in Procs :
    /\ ~autoRecall => ~IsRecallHook(p)
    /\ (IsRecallHook(p) /\ Len(tasks[p].text) < MinPromptLength) =>
         /\ tasks[p].reqs = <<>>
         /\ tasks[p].searches = 0
         /\ Completed(p)
         /\ tasks[p].out.action = "nothing"
         /\ tasks[p].out.list = <<>>
    /\ (IsRecallHook(p) /\ Len(tasks[p].text) >= MinPromptLength) =>
         /\ \A i \in 1..Len(tasks[p].reqs) : tasks[p].reqs[i] \in {"connect", "hybrid"}
         /\ Cardinality(HybridRequests(p)) <= 1
         /\ tasks[p].searches = 1 =>
              /\ HybridRequests(p) # {}
              /\ tasks[p].lastSearch.text = tasks[p].text
              /\ tasks[p].lastSearch.limit = RecallHookLimit
              /\ tasks[p].lastSearch.minScore = RecallHookMinScore
         /\ (Completed(p) /\ tasks[p].out.action = "prependContext") =>
              /\ tasks[p].searches = 1
              /\ Len(tasks[p].out.list) \in 1..RecallHookLimit
              /\ \A i \in 1..Len(tasks[p].out.list) :
                   /\ tasks[p].out.list[i].score >= RecallHookMinScore
                   /\ \E e \in Persisted : e.id = tasks[p].out.list[i].id
         /\ (Completed(p) /\ tasks[p].searches = 1 /\ tasks[p].results = <<>>) =>
              (tasks[p].out.action = "nothing" /\ tasks[p].out.list = <<>>)

C19_Witness ==
  \E p \in Procs :
    /\ IsRecallHook(p)
    /\ Completed(p)
    /\ tasks[p].out.action = "prependContext"
    /\ Len(tasks[p].out.list) = RecallHookLimit
    /\ Cardinality(db) > RecallHookLimit

\* ------------------------------------------------------------------------
\* C21: memoryConfigSchema.parse either returns a complete configuration or
\* throws; it throws when the connection URL is missing, when the provider is
\* openai and no apiKey string is given, when the provider is openai and the
\* model is not a known model, and when an unknown key is present; when it
\* throws, register has created no store and registered nothing.
\* ------------------------------------------------------------------------
MustThrow(raw) ==
  \/ raw.url = "missing"
  \/ ProviderOf(raw) = "openai" /\ raw.apiKey # "string"
  \/ ProviderOf(raw) = "openai" /\ ModelOf(raw) \notin KnownModels
  \/ raw.unknownKey # "none"

C21_ParseThrowsOrIsComplete ==
  /\ plugin.state \in {"loaded", "registered", "threw"}
  /\ plugin.state # "loaded" /\ MustThrow(plugin.raw) => plugin.state = "threw"
  /\ plugin.state = "threw" =>
       /\ ~plugin.store
       /\ plugin.registered = {}
       /\ \A p \in Procs : tasks[p].kind = "idle"
       /\ client = 0 /\ nInits = 0
  /\ plugin.state = "registered" =>
       /\ provider \in Providers
       /\ provider = "openai" => plugin.raw.apiKey = "string"

\* the same statement with the models read as the code reads them: a model
\* is accepted when the EMBEDDING_DIMENSIONS lookup yields anything truthy
C21_ThrowsAsCoded ==
  /\ plugin.state # "loaded" =>
       (plugin.state = "threw" <=> ~parse(plugin.raw).ok)
  /\ plugin.state = "threw" =>
       /\ ~plugin.store
       /\ plugin.registered = {}
       /\ \A p \in Procs : tasks[p].kind = "idle"
       /\ client = 0 /\ nInits = 0

C21_Witness ==
  /\ plugin.state = "registered"
  /\ plugin.raw.model = "constructor"
  /\ provider = "openai"
  /\ \E p \in Procs : tasks[p].kind = "memory_stats" /\ tasks[p].pc = "done"

\* ------------------------------------------------------------------------
\* C22: a text that passes every noise filter (length 10 to 1000, no
\* memory-context marker, not tag-wrapped, not bold-plus-list, at most 3
\* emoji) is accepted exactly when it matches at least one trigger pattern; a
\* text that fails a noise filter is rejected whatever triggers it matches.
\* ------------------------------------------------------------------------
PassesNoiseFilters(t) ==
  /\ Len(t) >= MinCaptureLength
  /\ Len(t) <= MaxCaptureLength
  /\ ~includes(t, "<relevant-memories>")
  /\ ~(startsWith(t, "<") /\ includes(t, "</"))
  /\ ~(includes(t, "**") /\ includes(t, "\n-"))
  /\ emojiCount(t) <= MaxEmoji

MatchedTriggers(t) == {i \in 1..NumTriggers : MEMORY_TRIGGERS(i, t)}

C22_AcceptsIffTriggerAndNoNoise ==
  sample.captured # "-" =>
    IF PassesNoiseFilters(sample.text)
      THEN sample.captured = "yes" <=> MatchedTriggers(sample.text) # {}
      ELSE sample.captured = "no"

\* a text with a trigger rejected for noise, and the filter has answered
C22_Witness ==
  /\ sample.captured = "no"
  /\ MatchedTriggers(sample.text) # {}
  /\ emojiCount(sample.text) > MaxEmoji

\* ------------------------------------------------------------------------
\* C23 (as stated): a text that passes all noise filters and contains a run
\* of 10 or more consecutive digits is accepted, with or without a plus sign
\* in front of the run.
\* ------------------------------------------------------------------------
DigitRunAt(t, i) == i >= 1 /\ i + 9 <= Len(t) /\ \A k \in 0..9 : At(t, i + k) \in Digits

HasDigitRun(t) == \E i \in 1..Len(t) : DigitRunAt(t, i)

HasPlusDigitRun(t) == \E i \in 1..Len(t) : At(t, i) = "+" /\ DigitRunAt(t, i + 1)

C23_DigitRunAccepted ==
  sample.captured # "-" /\ PassesNoiseFilters(sample.text) /\ HasDigitRun(sample.text)
    => sample.captured = "yes"

\* C23 (amended): such a text is accepted when a plus sign stands directly
\* in front of the run of 10 or more digits; a run without the plus sign is
\* no trigger, and a text whose only candidate trigger it is is rejected.
C23_PlusDigitRunAccepted ==
  sample.captured # "-" /\ PassesNoiseFilters(sample.text) =>
    /\ HasPlusDigitRun(sample.text) => sample.captured = "yes"
    /\ HasDigitRun(sample.text) /\ ~HasPlusDigitRun(sample.text)
         /\ (\A i \in (1..NumTriggers) \ {7} : ~MEMORY_TRIGGERS(i, sample.text))
         => sample.captured = "no"

\* both cases: a run with the plus sign accepted ...
C23_Witness ==
  /\ sample.captured = "yes"
  /\ HasPlusDigitRun(sample.text)
  /\ \A i \in (1..NumTriggers) \ {7} : ~MEMORY_TRIGGERS(i, sample.text)

\* ... and a run without it rejected though no noise filter applies
C23_WitnessNoPlus ==
  /\ sample.captured = "no"
  /\ PassesNoiseFilters(sample.text)
  /\ HasDigitRun(sample.text)
  /\ ~HasPlusDigitRun(sample.text)

\* ------------------------------------------------------------------------
\* C24: the classifier returns exactly one category for every text, decided
\* in the order preference, decision, entity, fact, other (first match wins:
\* preference and decision vocabulary together give preference), and never
\* returns conversation.
\* ------------------------------------------------------------------------
RuleOrder == <<"preference", "decision", "entity", "fact">>

\* the first rule of RuleOrder that matches, "other" when none does
FirstRule(t) ==
  IF \E i \in 1..Len(RuleOrder) : Vocabulary(RuleOrder[i], t)
    THEN RuleOrder[CHOOSE i \in 1..Len(RuleOrder) :
                     /\ Vocabulary(RuleOrder[i], t)
                     /\ \A j \in 1..(i - 1) : ~Vocabulary(RuleOrder[j], t)]
    ELSE "other"

HookOutputs == {tasks[p].out.text : p \in {q \in Procs : tasks[q].out.action = "prependContext"}}

ContainsContextBlock(t) == \E b \in ContextBlocks \cup HookOutputs : includes(t, b)

C25_ContextBlockIsRejected ==
  /\ sample.captured # "-" /\ ContainsContextBlock(sample.text) => sample.captured = "no"
  /\ \A b \in HookOutputs : ToCapture(<<Msg("user", b \o T1)>>) = <<>>

\* what the host made of a hook's output: the block behind a greeting and in
\* front of a prompt that matches a trigger, in a text no other noise filter
\* rejects
C25_Witness ==
  /\ sample.captured = "no"
  /\ \E b \in HookOutputs : sample.text = "Hi. " \o b \o T1
  /\ Len(sample.text) <= MaxCaptureLength
  /\ MatchedTriggers(sample.text) # {}

\* ------------------------------------------------------------------------
\* C26: a forget or CLI delete with a malformed identifier is rejected before
\* the store is reached: on an uninitialized store it sets up no connection
\* and leaves the store uninitialized.
\* ------------------------------------------------------------------------
MalformedForget(p) ==
  IsForget(p) /\ Truthy(tasks[p].memoryId) /\ ~uuidRegexTest(tasks[p].memoryId)

C26_MalformedIdReachesNoStore ==
  \A p \in Procs :
    MalformedForget(p) =>
      /\ \A i \in 1..Len(tasks[p].reqs) : tasks[p].reqs[i] # "connect"
      /\ calls = 1 =>
           /\ nInits = 0
           /\ initPromise = 0
           /\ client = 0
           /\ collection = 0

\* ------------------------------------------------------------------------
\* C27: once close() has run, the store holds no client and no collection
\* until a new initialization is started after the close; an initialization
\* that was in flight when close() ran does not leave the store connected.
\* ------------------------------------------------------------------------
NoInitSinceClose == closes > 0 /\ nInits = atClose

C27_ClosedStaysDisconnected ==
  NoInitSinceClose => client = 0 /\ collection = 0

\* ------------------------------------------------------------------------
\* C28: no backend data operation (insert, nearVector / nearText, hybrid,
\* deleteById, aggregate) is issued while the collection handle is null,
\* under every interleaving of the operations with close().
\* ------------------------------------------------------------------------
DataRequests == {"insert", "nearVector", "nearText", "hybrid", "deleteById", "aggregate"}

\* task p sends a data request in this step
SendsDataRequest(p) ==
  /\ tasks[p].kind # "idle"
  /\ tasks'[p].kind = tasks[p].kind
  /\ Len(tasks'[p].reqs) = Len(tasks[p].reqs) + 1
  /\ tasks'[p].reqs[Len(tasks'[p].reqs)] \in DataRequests

C28_NoRequestOnNullCollection ==
  [][\A p \in Procs : SendsDataRequest(p) => collection # 0 /\ client # 0]_vars

\* close() ran between the end of the initialization a call awaited and the
\* call's request: the call failed on the null handle, and sent nothing
C28_Witness ==
  \E p \in Procs :
    /\ closes > 0
    /\ tasks[p].pc = "done"
    /\ tasks[p].out.err = "type_error"
    /\ \A i \in 1..Len(tasks[p].reqs) : tasks[p].reqs[i] \notin DataRequests

\* ------------------------------------------------------------------------
\* C29: after an initialization attempt has failed, a later store / search /
\* delete / count call starts a fresh attempt; it does not fail again with
\* the error of the earlier attempt.
\* ------------------------------------------------------------------------
\* in this step task p calls ensureInitialized() and is handed promise k
HandedPromise(p, k) ==
  /\ tasks'[p].pc = "await"
  /\ tasks'[p].wait = k
  /\ ~(tasks[p].pc = "await" /\ tasks[p].wait = k /\ tasks[p].kind = tasks'[p].kind
         /\ tasks[p].meth = tasks'[p].meth)

C29_FailedInitIsRetried ==
  [][\A p \in Procs, k \in 1..MaxInits : HandedPromise(p, k) => inits[k] # "rejected"]_vars

\* ------------------------------------------------------------------------
\* C30: once forget has reported an entry deleted, no recall, forget-by-query
\* candidate list, duplicate check or auto-recall context of a later call
\* contains an entry with that id, and a later store of the same text creates
\* an entry with a different id instead of reporting a duplicate of the
\* deleted one.
\* ------------------------------------------------------------------------
IdsIn(list) == {list[i].id : i \in 1..Len(list)}

EntryIdsIn(results) == {results[i].entry.id : i \in 1..Len(results)}

C30_DeletedStaysDeleted ==
  /\ \A d \in ReportedDeleted : \A e \in db : e.id # d
  /\ \A q \in Procs : \A d \in tasks[q].gone :
       /\ d \notin EntryIdsIn(tasks[q].results)
       /\ d \notin EntryIdsIn(tasks[q].raw)
       /\ d \notin IdsIn(tasks[q].out.list)
       /\ tasks[q].out.action \in {"duplicate", "created"} => tasks[q].out.id # d
       /\ d \notin IdsIn(tasks[q].inserts)

\* the text of the deleted entry stored again by a later call: a new entry
C30_Witness ==
  \E q \in Procs :
    /\ tasks[q].kind = "memory_store"
    /\ tasks[q].gone = {E1.id}
    /\ tasks[q].text = E1.text
    /\ tasks[q].pc = "done"
    /\ tasks[q].out.action = "created"
    /\ \E e \in db : e.id = tasks[q].out.id /\ e.text = E1.text

\* ------------------------------------------------------------------------
\* C31: forget with a well-formed memoryId that matches no stored entry
\* reports the deleted outcome and leaves the stored entries unchanged;
\* forget called twice with the same well-formed id reports deleted both
\* times and leaves the store as one call does.
\* ------------------------------------------------------------------------
\* a forget by id (tool with memoryId, or CLI) with a well-formed id
ForgetByGoodId(p) ==
  IsForget(p) /\ Truthy(tasks[p].memoryId) /\ uuidRegexTest(tasks[p].memoryId)

\* such a call that has ended without an error
ForgotById(p) ==
  ForgetByGoodId(p) /\ tasks[p].pc = "done" /\ tasks[p].out.err = "none"

\* the deleteById of task p is answered in this step
DeleteAnswered(p) ==
  /\ tasks[p].pc = "call"
  /\ tasks[p].meth = "delete"
  /\ tasks'[p].pc # "call"
  /\ tasks'[p].err = "none"

C31_Reported ==
  \A p \in Procs :
    ForgotById(p) =>
      /\ tasks[p].out.st = "returned"
      /\ tasks[p].out.action = "deleted"
      /\ tasks[p].out.id = tasks[p].memoryId
      /\ tasks[p].deletes = <<tasks[p].memoryId>>
      /\ tasks[p].removed \subseteq {e \in Persisted : e.id = tasks[p].memoryId}
      /\ \A e \in db : e.id # tasks[p].memoryId
      /\ \A q \in Procs \ {p} :
           ForgotById(q) /\ tasks[q].memoryId = tasks[p].memoryId =>
             Cardinality(tasks[p].removed \cup tasks[q].removed) <= 1

C31_StoreStep ==
  \A p \in Procs :
    ForgetByGoodId(p) /\ DeleteAnswered(p) =>
      /\ db' = {e \in db : e.id # tasks[p].memoryId}
      /\ (\A e \in db : e.id # tasks[p].memoryId) => db' = db

C31_ForgetIsIdempotent == []C31_Reported /\ [][C31_StoreStep]_vars

\* two calls with the same id, both reported deleted: one removed the entry,
\* the other found no entry with that id
C31_Witness ==
  \E p, q \in Procs :
    /\ p # q
    /\ ForgotById(p) /\ ForgotById(q)
    /\ tasks[p].memoryId = tasks[q].memoryId
    /\ tasks[p].removed # {}
    /\ tasks[q].removed = {}
    /\ tasks[q].out.action = "deleted"

\* ------------------------------------------------------------------------
\* C32: within one run of the capture hook the candidates are checked and
\* stored one after another: the run has at most one call in flight, and
\* when an accepted text occurs more than once among the first 5 candidates
\* and no call fails, the run inserts at most one entry with that text.
\* ------------------------------------------------------------------------
\* the number of inserts of text t among the first n inserts
RECURSIVE InsertsOf(_, _, _)
InsertsOf(ins, n, t) ==
  IF n = 0 THEN 0
  ELSE InsertsOf(ins, n - 1, t) + (IF ins[n].text = t THEN 1 ELSE 0)

\* text t occurs at least twice among the candidates
OccursTwice(cands, t) ==
  \E i, j \in 1..Len(cands) : i < j /\ cands[i] = t /\ cands[j] = t

\* no call of the run has failed
NoCallFailed(p) == tasks[p].err = "none" /\ tasks[p].out.err = "none"

C32_RepeatedTextStoredOnce ==
  \A p \in Procs :
    IsCapture(p) /\ NoCallFailed(p) =>
      /\ Len(tasks[p].inserts) <= tasks[p].done + 1
      /\ tasks[p].pc = "done" => Len(tasks[p].inserts) = tasks[p].stored
      /\ \A i \in 1..Len(tasks[p].cands) :
           OccursTwice(tasks[p].cands, tasks[p].cands[i]) =>
             InsertsOf(tasks[p].inserts, Len(tasks[p].inserts), tasks[p].cands[i]) <= 1

\* a run that went through a conversation holding a text twice without a
\* failure, stored the text at its first occurrence and skipped the second
C32_Witness ==
  \E p \in Procs :
    /\ IsCapture(p)
    /\ Completed(p)
    /\ NoCallFailed(p)
    /\ tasks[p].done = Len(tasks[p].cands)
    /\ \E t \in Texts :
         /\ OccursTwice(tasks[p].cands, t)
         /\ InsertsOf(tasks[p].inserts, Len(tasks[p].inserts), t) = 1
    /\ Len(tasks[p].inserts) = 2

====
